---- MODULE Spec2Model ----
(***************************************************************************)
(* A model of the SpiceDB MCP bridge: the backend transport (makeRequest), *)
(* the three paginated aggregators (readRelationships, lookupResources,    *)
(* lookupSubjects), the tool handlers of index.ts and server.ts, and the   *)
(* relationship codec (parseRelationshipString and the formatters).        *)
(***************************************************************************)
EXTENDS Integers, Sequences, FiniteSets, TLC

VARIABLES
    \* one makeRequest call made through readSchema
    tpc, tstatus, tbody, tfetches, tout,
    \* one tool invocation of index.ts that drains a paginated endpoint
    ep, apc, cursor, results, hasMore, reqs, served, aout, toolResp,
    \* one tool call of the HTTP server of server.ts
    stool, sparams, spc, sreqs, sstatus, sresp,
    \* one use of the relationship codec
    cpc, cin, crel, cparsed, ctext,
    \* one call of createRelationshipFilter
    fpc, fargs, filter,
    \* one rendering of a check-permission answer
    xpc, checkResponse, headline, explanation, explained,
    \* one reading of the schema: the definitions listed and one looked up
    dpc, schemaText, objectDefResources, objectType, definition,
    \* one process: its environment, its client and the request it sends
    kpc, env, program, client, sent,
    \* the aggregations that run at the same time in that process
    calls

tvars == <<tpc, tstatus, tbody, tfetches, tout>>
avars == <<ep, apc, cursor, results, hasMore, reqs, served, aout, toolResp>>

svars == <<stool, sparams, spc, sreqs, sstatus, sresp>>

vars == <<tpc, tstatus, tbody, tfetches, tout,
          ep, apc, cursor, results, hasMore, reqs, served, aout, toolResp,
          stool, sparams, spc, sreqs, sstatus, sresp,
          cpc, cin, crel, cparsed, ctext,
          fpc, fargs, filter,
          xpc, checkResponse, headline, explanation, explained,
          dpc, schemaText, objectDefResources, objectType, definition,
          kpc, env, program, client, sent, calls>>

cvars == <<cpc, cin, crel, cparsed, ctext>>

fvars == <<fpc, fargs, filter>>

xvars == <<xpc, checkResponse, headline, explanation, explained>>

dvars == <<dpc, schemaText, objectDefResources, objectType, definition>>

kvars == <<kpc, env, program, client, sent, calls>>

\* the variables of the helpers outside the request path
ovars == <<fvars, xvars, dvars, kvars>>

(***************************************************************************)
(* Bounds of the model.                                                    *)
(***************************************************************************)
\* longest response body, in characters, the transport specification feeds
MaxBody == 5
\* most requests one aggregation is followed for
MaxRequests == 3
\* most lines in one page the backend serves to an aggregator
MaxLines == 2
\* longest type, id or relation name, in characters, the codec is fed
MaxName == 1
\* the longest arbitrary text handed to parseRelationshipString
MaxText == 6
\* the most nodes in a check trace
MaxNodes == 3
\* the most lines in a schema text
MaxSchemaLines == 4
\* the most requests of one aggregation that runs beside another
MaxConcRequests == 2

(***************************************************************************)
(* JSON values.  Every value is a tagged record, so that Array.isArray,    *)
(* the `in` operator and truthiness are decided as JavaScript decides them.*)
(***************************************************************************)
Null == [t |-> "null"]
Undefined == [t |-> "undef"]
Str(s) == [t |-> "str", s |-> s]
\* the empty string, which is falsy
EmptyStr == [t |-> "emptystr"]
Obj(f) == [t |-> "obj", f |-> f]
Arr(e) == [t |-> "arr", e |-> e]

\* Array.isArray(v)
IsArray(v) == v.t = "arr"
\* the truthiness of v in a condition (non-empty strings, objects, arrays)
Truthy(v) == v.t \in {"str", "obj", "arr"}
\* `k in v` for an object v
HasKey(v, k) == v.t = "obj" /\ k \in DOMAIN v.f
\* v.k : undefined when v has no such property
Get(v, k) == IF HasKey(v, k) THEN v.f[k] ELSE Undefined

(***************************************************************************)
(* Response text.  A body is a sequence of characters.  A character is a   *)
(* newline, a blank, a character that is not JSON, or a "doc" character    *)
(* that stands for the full text of one JSON document on one line.         *)
(***************************************************************************)
Chr(c, kind, key, id) == [c |-> c, kind |-> kind, key |-> key, id |-> id]
NL == Chr("nl", "", "", 0)
SP == Chr("sp", "", "", 0)
XX == Chr("x", "", "", 0)
DocChar(kind, key, id) == Chr("doc", kind, key, id)

CursorKey == "afterResultCursor"

\* the value JSON.parse gives for the text a doc character stands for
DocValue(d) ==
    CASE d.kind = "wrapc" ->
           Obj([result |-> Obj((d.key :> Str(d.id)) @@ (CursorKey :> Str(d.id)))])
      [] d.kind = "wrap" ->
           Obj([result |-> Obj((d.key :> Str(d.id)))])
      [] d.kind = "wrapinv" ->
           Obj([result |-> Obj((CursorKey :> Str(d.id)))])
      [] d.kind = "noresult" ->
           Obj((CursorKey :> Str(d.id)))
      [] d.kind = "legc" ->
           Obj((d.key :> Str(d.id)) @@ (CursorKey :> Str(d.id)))
      [] d.kind = "leg" ->
           Obj((d.key :> Str(d.id)))
      [] d.kind = "schema" ->
           Obj([schemaText |-> Str(d.id)])
      [] d.kind = "emptyarr" ->
           Arr(<<>>)
      [] d.kind = "prim" ->
           Str(d.id)
      [] OTHER -> Null

IsSpace(ch) == ch.c \in {"sp", "nl"}

RECURSIVE TrimLeft(_)
TrimLeft(s) ==
    IF s = <<>> THEN <<>>
    ELSE IF IsSpace(Head(s)) THEN TrimLeft(Tail(s)) ELSE s

RECURSIVE TrimRight(_)
TrimRight(s) ==
    IF s = <<>> THEN <<>>
    ELSE IF IsSpace(s[Len(s)]) THEN TrimRight(SubSeq(s, 1, Len(s) - 1)) ELSE s

\* String.prototype.trim
Trim(s) == TrimRight(TrimLeft(s))

\* String.prototype.split(sep) for a one-character separator: always at
\* least one piece, empty pieces kept
RECURSIVE SplitOn(_, _)
SplitOn(s, sep) ==
    IF \A i \in 1..Len(s) : s[i] # sep THEN <<s>>
    ELSE LET i == CHOOSE j \in 1..Len(s) :
                      s[j] = sep /\ \A k \in 1..(j - 1) : s[k] # sep
         IN  <<SubSeq(s, 1, i - 1)>> \o SplitOn(SubSeq(s, i + 1, Len(s)), sep)

\* JSON.parse(line): leading and trailing white space is allowed, and what
\* is left must be the text of exactly one document
JSONParse(line) ==
    LET t == Trim(line)
    IN  IF Len(t) = 1 /\ t[1].c = "doc"
        THEN [ok |-> TRUE, value |-> DocValue(t[1])]
        ELSE [ok |-> FALSE, value |-> Undefined]

(***************************************************************************)
(* Outcomes of a call: a returned value or a thrown error.                 *)
(***************************************************************************)
Return(v) == [kind |-> "return", value |-> v, error |-> Undefined]
Throw(e) == [kind |-> "throw", value |-> Undefined, error |-> e]
NoOutcome == [kind |-> "none", value |-> Undefined, error |-> Undefined]

\* new Error(`SpiceDB API error (${response.status}): ${errorText}`)
ApiError(status, text) == [msg |-> "SpiceDB API error", status |-> status, text |-> text]
\* new Error(`Failed to parse JSON line: ${line}`)
ParseError(line) == [msg |-> "Failed to parse JSON line", status |-> 0, text |-> line]

\* response.ok
ResponseOk(status) == status >= 200 /\ status <= 299

\* responseText.split('\n').filter((line) => line.trim() !== '')
NonBlankLines(body) == SelectSeq(SplitOn(body, NL), LAMBDA l : Trim(l) # <<>>)

\* the .map(JSON.parse) of makeRequest: the first line that does not parse
\* throws; otherwise the parsed values in line order
ParseLines(lines) ==
    IF \E i \in 1..Len(lines) : ~JSONParse(lines[i]).ok
    THEN LET i == CHOOSE j \in 1..Len(lines) :
                      /\ ~JSONParse(lines[j]).ok
                      /\ \A k \in 1..(j - 1) : JSONParse(lines[k]).ok
         IN  Throw(ParseError(lines[i]))
    ELSE Return(Arr([i \in 1..Len(lines) |-> JSONParse(lines[i]).value]))

\* mutant: every response is unwrapped to its first value
makeRequest_firstOnly(status, body) ==
    IF ~ResponseOk(status) THEN Throw(ApiError(status, body))
    ELSE IF status = 204 THEN Return(Null)
    ELSE IF Trim(body) = <<>> THEN Return(Null)
    ELSE LET parsed == ParseLines(NonBlankLines(body))
         IN  IF parsed.kind = "throw" THEN parsed
             ELSE Return(parsed.value.e[1])

\* mutant: a line that does not parse is skipped instead of failing the call
makeRequest_skipBadLines(status, body) ==
    IF ~ResponseOk(status) THEN Throw(ApiError(status, body))
    ELSE IF status = 204 THEN Return(Null)
    ELSE IF Trim(body) = <<>> THEN Return(Null)
    ELSE LET good == SelectSeq(NonBlankLines(body), LAMBDA l : JSONParse(l).ok)
             vals == [i \in 1..Len(good) |-> JSONParse(good[i]).value]
         IN  IF Len(vals) = 1 THEN Return(vals[1]) ELSE Return(Arr(vals))

\* mutant: the status of the response is not looked at
makeRequest_ignoreStatus(status, body) ==
    IF Trim(body) = <<>> THEN Return(Null)
    ELSE LET parsed == ParseLines(NonBlankLines(body))
         IN  IF parsed.kind = "throw" THEN parsed
             ELSE IF Len(parsed.value.e) = 1 THEN Return(parsed.value.e[1])
             ELSE Return(parsed.value)

\* SpiceDBClient.makeRequest, from the response on: what the call returns
\* or throws for a response with this status and body
makeRequest(status, body) ==
    IF ~ResponseOk(status) THEN Throw(ApiError(status, body))
    ELSE IF status = 204 THEN Return(Null)
    ELSE IF Trim(body) = <<>> THEN Return(Null)
    ELSE LET parsed == ParseLines(NonBlankLines(body))
         IN  IF parsed.kind = "throw" THEN parsed
             ELSE IF Len(parsed.value.e) = 1 THEN Return(parsed.value.e[1])
             ELSE Return(parsed.value)

(***************************************************************************)
(* The transport alone: readSchema is one makeRequest call.  The backend   *)
(* answers with any status and any body of at most MaxBody characters.     *)
(***************************************************************************)
Statuses == {200, 201, 204, 500}

SchemaDocs == {DocChar("schema", "", 1), DocChar("schema", "", 2)}
BodyAlphabet == {NL, SP, XX} \cup SchemaDocs

SeqsUpTo(S, n) == UNION {[1..m -> S] : m \in 0..n}

(***************************************************************************)
(* The relationship codec of SpiceDBClient (index.ts).  A text is a        *)
(* sequence of one-character strings.                                      *)
(***************************************************************************)
\* an optional string argument or field
None == [present |-> FALSE, text |-> <<>>]
Some(text) == [present |-> TRUE, text |-> text]
\* the truthiness of an optional string: present and not empty
TruthyOpt(o) == o.present /\ o.text # <<>>

ParseFailure(message) ==
    [ok |-> FALSE, message |-> message,
     resourceType |-> <<>>, resourceId |-> <<>>, relation |-> <<>>,
     subjectType |-> <<>>, subjectId |-> <<>>, optionalSubjectRelation |-> None]

ParseSuccess(rt, rid, rel, st, sid, osr) ==
    [ok |-> TRUE, message |-> "",
     resourceType |-> rt, resourceId |-> rid, relation |-> rel,
     subjectType |-> st, subjectId |-> sid, optionalSubjectRelation |-> osr]

\* subjectPart.includes('#')
Includes(s, ch) == \E i \in 1..Len(s) : s[i] = ch

\* SpiceDBClient.parseRelationshipString
parseRelationshipString(relationshipStr) ==
    LET parts == SplitOn(relationshipStr, "#")
        resourcePart == SplitOn(parts[1], ":")
    IN  IF Len(parts) < 2 \/ Len(resourcePart) # 2
        THEN ParseFailure("Invalid relationship format")
        ELSE
        LET relationSubjectParts == SplitOn(parts[2], "@")
        IN  IF Len(relationSubjectParts) # 2
            THEN ParseFailure("Invalid relationship format")
            ELSE
            LET relation == relationSubjectParts[1]
                subjectPart == relationSubjectParts[2]
            IN  IF Includes(subjectPart, "#")
                THEN LET subjectParts == SplitOn(subjectPart, "#")
                         subjectRefParts == SplitOn(subjectParts[1], ":")
                     IN  IF Len(subjectRefParts) # 2
                         THEN ParseFailure("Invalid subject format")
                         ELSE ParseSuccess(resourcePart[1], resourcePart[2], relation,
                                           subjectRefParts[1], subjectRefParts[2],
                                           Some(subjectParts[2]))
                ELSE LET subjectRefParts == SplitOn(subjectPart, ":")
                     IN  IF Len(subjectRefParts) # 2
                         THEN ParseFailure("Invalid subject format")
                         ELSE ParseSuccess(resourcePart[1], resourcePart[2], relation,
                                           subjectRefParts[1], subjectRefParts[2],
                                           None)

\* SpiceDBClient.createRelationship
createRelationship(resourceType, resourceId, relation, subjectType, subjectId, optionalSubjectRelation) ==
    [resource |-> [objectType |-> resourceType, objectId |-> resourceId],
     relation |-> relation,
     subject |-> [object |-> [objectType |-> subjectType, objectId |-> subjectId],
                  optionalRelation |-> IF TruthyOpt(optionalSubjectRelation)
                                       THEN optionalSubjectRelation
                                       ELSE None]]

\* SpiceDBClient.objectRefToString
objectRefToString(ref) == ref.objectType \o <<":">> \o ref.objectId

\* SpiceDBClient.subjectRefToString
subjectRefToString(ref) ==
    LET base == objectRefToString(ref.object)
    IN  IF TruthyOpt(ref.optionalRelation)
        THEN base \o <<"#">> \o ref.optionalRelation.text
        ELSE base

\* `${resource}#${relation}@${subject}` of the read-relationships handler
relationshipString(rel) ==
    objectRefToString(rel.resource) \o <<"#">> \o rel.relation \o <<"@">>
      \o subjectRefToString(rel.subject)

NameChars == {"a", "b"}
\* the type, id and relation names the codec is fed
Names == UNION {[1..n -> NameChars] : n \in 1..MaxName}

\* the valid relationships, and their texts in the notation
\* resourceType:resourceId#relation@subjectType:subjectId[#subjectRelation]
ValidRelationships ==
    {[resource |-> [objectType |-> rt, objectId |-> rid],
      relation |-> rel,
      subject |-> [object |-> [objectType |-> st, objectId |-> sid],
                   optionalRelation |-> osr]] :
        rt \in Names, rid \in Names, rel \in Names, st \in Names,
        sid \in Names, osr \in {None} \cup {Some(n) : n \in Names}}

NotationOf(r) ==
    r.resource.objectType \o <<":">> \o r.resource.objectId \o <<"#">> \o r.relation
      \o <<"@">> \o r.subject.object.objectType \o <<":">> \o r.subject.object.objectId
      \o (IF r.subject.optionalRelation.present
          THEN <<"#">> \o r.subject.optionalRelation.text
          ELSE <<>>)

ValidRelationshipStrings == {NotationOf(r) : r \in ValidRelationships}

NoRelationship == createRelationship(<<>>, <<>>, <<>>, <<>>, <<>>, None)

CodecIdle ==
    /\ cpc = "idle"
    /\ cin = <<>>
    /\ crel = NoRelationship
    /\ cparsed = ParseFailure("")
    /\ ctext = <<>>

TransportIdle ==
    /\ tpc = "idle"
    /\ tstatus = 0
    /\ tbody = <<>>
    /\ tfetches = 0
    /\ tout = NoOutcome

AggIdle ==
    /\ ep = "none"
    /\ apc = "idle"
    /\ cursor = Null
    /\ results = <<>>
    /\ hasMore = TRUE
    /\ reqs = <<>>
    /\ served = <<>>
    /\ aout = NoOutcome
    /\ toolResp = [isError |-> FALSE, kind |-> "none", count |-> 0, error |-> Undefined]

ParamNames ==
    {"resourceType", "resourceId", "relation", "permission",
     "subjectType", "subjectId", "schema"}

SrvIdle ==
    /\ stool = "none"
    /\ sparams = [f \in ParamNames |-> Undefined]
    /\ spc = "idle"
    /\ sreqs = 0
    /\ sstatus = 0
    /\ sresp = [status |-> "none", content |-> Undefined, error |-> Undefined]

\* the parameters of createRelationshipFilter
FilterArgs ==
    {"resourceType", "resourceId", "relation", "subjectType", "subjectId", "subjectRelation"}

FilterIdle ==
    /\ fpc = "idle"
    /\ fargs = [a \in FilterArgs |-> Undefined]
    /\ filter = Undefined

\* no call of generateTraceExplanation has been made on its own
NoExplanation == [trace |-> [t |-> "undef"], depth |-> 0, text |-> <<>>]

TraceIdle ==
    /\ xpc = "idle"
    /\ checkResponse = Null
    /\ headline = ""
    /\ explanation = <<>>
    /\ explained = NoExplanation

SchemaIdle ==
    /\ dpc = "idle"
    /\ schemaText = <<>>
    /\ objectDefResources = <<>>
    /\ objectType = ""
    /\ definition = [kind |-> "none", lines |-> <<>>]

\* process.env before the program reads it, and a request not yet sent
EnvNames == {"SPICEDB_ENDPOINT", "SPICEDB_URL", "SPICEDB_API_KEY", "SPICEDB_USE_TLS"}

NoClient == [endpoint |-> <<>>, apiKey |-> <<>>, useTLS |-> FALSE]

NoRequest == [url |-> <<>>, headers |-> {}]

\* the invocations that may run at the same time, and one before it starts
Callers == {1, 2}

NoCall ==
    [ep |-> "none", pc |-> "idle", cursor |-> Null, results |-> <<>>, hasMore |-> TRUE,
     reqs |-> <<>>, served |-> <<>>, out |-> NoOutcome]

ClientIdle ==
    /\ kpc = "idle"
    /\ env = [n \in EnvNames |-> None]
    /\ program = "none"
    /\ client = NoClient
    /\ sent = NoRequest
    /\ calls = [i \in Callers |-> NoCall]

OtherIdle == FilterIdle /\ TraceIdle /\ SchemaIdle /\ ClientIdle

TransportInit == TransportIdle /\ AggIdle /\ SrvIdle /\ CodecIdle /\ OtherIdle

\* readSchema() calls makeRequest, which sends the request and awaits
ReadSchemaCall ==
    /\ tpc = "idle"
    /\ tpc' = "awaiting"
    /\ tfetches' = tfetches + 1
    /\ UNCHANGED <<tstatus, tbody, tout>>
    /\ UNCHANGED avars
    /\ UNCHANGED svars
    /\ UNCHANGED cvars
    /\ UNCHANGED ovars

\* the backend answers the request in flight
BackendAnswer ==
    /\ tpc = "awaiting"
    /\ \E s \in Statuses, b \in SeqsUpTo(BodyAlphabet, MaxBody) :
          /\ tstatus' = s
          /\ tbody' = b
    /\ tpc' = "answered"
    /\ UNCHANGED <<tfetches, tout>>
    /\ UNCHANGED avars
    /\ UNCHANGED svars
    /\ UNCHANGED cvars
    /\ UNCHANGED ovars

\* makeRequest resumes with the response and returns or throws
MakeRequestComplete ==
    /\ tpc = "answered"
    /\ tout' = makeRequest(tstatus, tbody)
    /\ tpc' = "done"
    /\ UNCHANGED <<tstatus, tbody, tfetches>>
    /\ UNCHANGED avars
    /\ UNCHANGED svars
    /\ UNCHANGED cvars
    /\ UNCHANGED ovars

TransportNext == ReadSchemaCall \/ BackendAnswer \/ MakeRequestComplete

SpecTransport == TransportInit /\ [][TransportNext]_vars

(***************************************************************************)
(* Transport claims.  The premises are stated on the raw body, without     *)
(* makeRequest's own splitting and filtering.                              *)
(***************************************************************************)
\* the doc characters of a body, in input order
DocsOf(body) == SelectSeq(body, LAMBDA ch : ch.c = "doc")

\* body[i..j] is a whole line of the body
IsLineAt(body, i, j) ==
    /\ i >= 1 /\ j <= Len(body) /\ i <= j + 1
    /\ \A k \in i..j : body[k] # NL
    /\ (i = 1 \/ body[i - 1] = NL)
    /\ (j = Len(body) \/ body[j + 1] = NL)

\* a text that is neither blank nor one JSON document
IsBadText(l) ==
    \/ \E k \in 1..Len(l) : l[k] = XX
    \/ Len(DocsOf(l)) >= 2

BadLinesOf(body) ==
    {SubSeq(body, ij[1], ij[2]) :
        ij \in {p \in (1..(Len(body) + 1)) \X (0..Len(body)) :
                  /\ IsLineAt(body, p[1], p[2])
                  /\ IsBadText(SubSeq(body, p[1], p[2]))}}

\* every non-blank line of the body is one valid JSON value
AllLinesValid(body) ==
    /\ \A k \in 1..Len(body) : body[k] # XX
    /\ \A i, j \in 1..Len(body) :
          (i < j /\ body[i].c = "doc" /\ body[j].c = "doc")
             => \E k \in (i + 1)..(j - 1) : body[k] = NL

SuccessWithBody(status) == status \in {200, 201}

\* C7: for a successful response whose body has n >= 1 non-blank lines, each
\* a valid JSON value, makeRequest returns the single parsed value itself
\* when n = 1 and the sequence of the n parsed values in input order when
\* n >= 2; blank lines contribute no element.
C7_SingleOrSequence ==
    (/\ tpc = "done"
     /\ SuccessWithBody(tstatus)
     /\ AllLinesValid(tbody)
     /\ Len(DocsOf(tbody)) >= 1)
    => LET docs == DocsOf(tbody)
           vals == [i \in 1..Len(docs) |-> DocValue(docs[i])]
       IN  /\ tout.kind = "return"
           /\ Len(docs) = 1 => tout.value = vals[1]
           /\ Len(docs) >= 2 => tout.value = Arr(vals)

\* two different documents separated by a blank line come back as a
\* sequence of two
C7_Witness ==
    /\ tpc = "done"
    /\ tstatus = 200
    /\ Len(tbody) = 4
    /\ tbody[1].c = "doc" /\ tbody[2] = NL /\ tbody[3] = NL /\ tbody[4].c = "doc"
    /\ tbody[1] # tbody[4]
    /\ tout.kind = "return"
    /\ tout.value = Arr(<<DocValue(tbody[1]), DocValue(tbody[4])>>)

\* C8: if any non-blank line of a successful response body is not valid
\* JSON, makeRequest fails as a whole with an error naming a bad line of the
\* body and returns no value, whatever the position of the bad line.
C8_BadLineFailsWholeCall ==
    (/\ tpc = "done"
     /\ SuccessWithBody(tstatus)
     /\ ~AllLinesValid(tbody))
    => /\ tout.kind = "throw"
       /\ tout.value = Undefined
       /\ tout.error.msg = "Failed to parse JSON line"
       /\ tout.error.text \in BadLinesOf(tbody)

\* a bad last line after a good first line fails the call
C8_Witness ==
    /\ tpc = "done"
    /\ tstatus = 200
    /\ Len(tbody) = 3
    /\ tbody[1].c = "doc" /\ tbody[2] = NL /\ tbody[3] = XX
    /\ tout.kind = "throw"
    /\ tout.error.text = <<XX>>

\* C9: on a non-success status makeRequest fails with an error carrying the
\* status code and the raw body, the body is not parsed as a result, and one
\* call sends exactly one HTTP request whether it succeeds or fails.
C9_ApiErrorNoRetry ==
    /\ tfetches <= 1
    /\ tpc \in {"awaiting", "answered", "done"} => tfetches = 1
    /\ (tpc = "done" /\ (tstatus < 200 \/ tstatus > 299))
         => /\ tout.kind = "throw"
            /\ tout.value = Undefined
            /\ tout.error.msg = "SpiceDB API error"
            /\ tout.error.status = tstatus
            /\ tout.error.text = tbody

\* a 500 answer whose body is a well-formed document is an error all the same
C9_Witness ==
    /\ tpc = "done"
    /\ tstatus = 500
    /\ Len(tbody) = 1 /\ tbody[1].c = "doc"
    /\ tout.kind = "throw"
    /\ tout.error.status = 500
    /\ tfetches = 1

(***************************************************************************)
(* The paginated aggregators of SpiceDBClient (index.ts).  The three       *)
(* methods are the same loop; they differ in the path, in the test on an   *)
(* item of a sequence page and in the test that selects the legacy branch. *)
(***************************************************************************)
Endpoints == {"readRelationships", "lookupResources", "lookupSubjects"}

Path(e) ==
    CASE e = "readRelationships" -> "/v1/relationships/read"
      [] e = "lookupResources" -> "/v1/permissions/resources"
      [] OTHER -> "/v1/permissions/subjects"

\* the field that identifies a result of the endpoint
ItemKey(e) ==
    CASE e = "readRelationships" -> "relationship"
      [] e = "lookupResources" -> "resourceObjectId"
      [] OTHER -> "subjectObjectId"

\* the test on an element of a sequence page:
\*   item.result && item.result.relationship     (readRelationships)
\*   item.result                                 (lookupResources, lookupSubjects)
ItemValid(e, item) ==
    IF e = "readRelationships"
    THEN Truthy(Get(item, "result")) /\ Truthy(Get(Get(item, "result"), "relationship"))
    ELSE Truthy(Get(item, "result"))

\* the test that selects the legacy single-object branch:
\*   response && 'relationship' in response      (readRelationships)
\*   response && 'resourceObjectId' in response  (lookupResources)
\*   response                                    (lookupSubjects)
LegacyMatch(e, response) ==
    CASE e = "readRelationships" -> Truthy(response) /\ HasKey(response, "relationship")
      [] e = "lookupResources" -> Truthy(response) /\ HasKey(response, "resourceObjectId")
      [] OTHER -> Truthy(response)

\* new TypeError(...): a property read on null, or `in` on a primitive
TypeError == [msg |-> "TypeError", status |-> 0, text |-> <<>>]

\* the for loop over the items of a sequence page: a valid item's nested
\* result is pushed, and its cursor, when truthy, overwrites the cursor
RECURSIVE ScanItems(_, _, _)
ScanItems(e, items, st) ==
    IF items = <<>> THEN st
    ELSE LET item == Head(items)
             res == Get(item, "result")
             st1 == IF ItemValid(e, item)
                    THEN [results |-> Append(st.results, res),
                          cursor |-> IF Truthy(Get(res, CursorKey))
                                     THEN Get(res, CursorKey)
                                     ELSE st.cursor]
                    ELSE st
         IN  ScanItems(e, Tail(items), st1)

\* mutant: a sequence page never ends the loop while nothing was collected
PageDone_cursorOnly(cur, res) == cur = Null /\ Len(res) > 0

\* if (cursor === null || results.length === 0) hasMore = false
PageDone(cur, res) == cur = Null \/ Len(res) = 0

\* one pass of the loop body after the await: the new results, cursor and
\* hasMore, or the error the pass throws
PageStep(e, response, res, cur) ==
    IF IsArray(response)
    THEN IF \E i \in 1..Len(response.e) : response.e[i].t \in {"null", "undef"}
         THEN [results |-> res, cursor |-> cur, hasMore |-> TRUE, error |-> TypeError]
         ELSE LET st == ScanItems(e, response.e, [results |-> res, cursor |-> cur])
              IN  [results |-> st.results, cursor |-> st.cursor,
                   hasMore |-> ~PageDone(st.cursor, st.results), error |-> Undefined]
    ELSE IF response.t = "str"
    THEN [results |-> res, cursor |-> cur, hasMore |-> TRUE, error |-> TypeError]
    ELSE IF LegacyMatch(e, response)
    THEN IF HasKey(response, CursorKey)
         THEN [results |-> Append(res, response), cursor |-> Get(response, CursorKey),
               hasMore |-> TRUE, error |-> Undefined]
         ELSE [results |-> Append(res, response), cursor |-> cur,
               hasMore |-> FALSE, error |-> Undefined]
    ELSE [results |-> res, cursor |-> cur, hasMore |-> FALSE, error |-> Undefined]

\* mutant: a failed page ends the aggregation with the results so far
OnRequestError_partial(res, error) == Return(res)

\* the await of makeRequest stands in no try block of the aggregator: an
\* error of the request leaves the method as it is
OnRequestError(res, error) == Throw(error)

\* const requestParams = { ...params }; if (cursor) requestParams.optionalCursor = cursor
RequestParams(e, cur) ==
    [path |-> Path(e), optionalCursor |-> IF Truthy(cur) THEN cur ELSE Undefined]

(***************************************************************************)
(* The tool handlers of index.ts over the aggregators: read-relationships, *)
(* lookup-resources, lookup-subjects.                                      *)
(***************************************************************************)
\* what the handler's loop over the results counts
HandlerCounts(e, r) ==
    CASE e = "readRelationships" -> Truthy(Get(r, "relationship"))
      [] e = "lookupResources" -> Truthy(Get(r, "resourceObjectId"))
      [] OTHER -> Truthy(Get(r, "subjectObjectId")) \/ Truthy(Get(r, "subject"))

\* the try / catch of the handler: the response for the aggregator's outcome
ToolResponse(e, out) ==
    IF out.kind = "throw"
    THEN [isError |-> TRUE, kind |-> "error", count |-> 0, error |-> out.error]
    ELSE LET n == Cardinality({i \in 1..Len(out.value) : HandlerCounts(e, out.value[i])})
         IN  [isError |-> FALSE, kind |-> IF n = 0 THEN "none" ELSE "found",
              count |-> n, error |-> Undefined]

(***************************************************************************)
(* The backend, as the aggregators see it: for each request any of a set   *)
(* of answers.  The j-th line of the p-th page carries an item and a       *)
(* cursor numbered (p - 1) * MaxLines + j, so that no two items and no two *)
(* cursors of one aggregation are equal.                                   *)
(***************************************************************************)
PageKinds == {"wrapc", "wrap", "wrapinv", "noresult"}
LegacyKinds == {"legc", "leg"}

RECURSIVE JoinLines(_)
JoinLines(lines) ==
    IF Len(lines) = 0 THEN <<>>
    ELSE IF Len(lines) = 1 THEN lines[1]
    ELSE lines[1] \o <<NL>> \o JoinLines(Tail(lines))

ItemId(p, j) == (p - 1) * MaxLines + j

PageBody(e, p, kinds) ==
    JoinLines([j \in 1..Len(kinds) |-> <<DocChar(kinds[j], ItemKey(e), ItemId(p, j))>>])

Answer(status, body) == [status |-> status, body |-> body]

\* the pages the backend serves: all lines of one kind, or the last line
\* differing from the others in whether it carries a cursor or a result
PagePairs ==
    {<<k, k>> : k \in PageKinds}
      \cup {<<"wrap", "wrapc">>, <<"wrapc", "wrap">>, <<"noresult", "wrapc">>}

PageShapes ==
    {[j \in 1..n |-> IF j < n THEN ks[1] ELSE ks[2]] :
        n \in 1..MaxLines, ks \in PagePairs}

Answers(e, p) ==
    {Answer(200, PageBody(e, p, kinds)) : kinds \in PageShapes}
      \cup {Answer(200, <<DocChar(k, ItemKey(e), ItemId(p, 1))>>) : k \in LegacyKinds}
      \cup {Answer(200, <<>>), Answer(204, <<>>), Answer(500, <<XX>>),
            Answer(200, <<XX>>),
            Answer(200, <<DocChar("emptyarr", "", 0)>>),
            Answer(200, <<DocChar("prim", "", p)>>),
            Answer(200, <<DocChar("wrap", ItemKey(e), ItemId(p, 1)), NL, XX>>)}

AggInit == TransportIdle /\ AggIdle /\ SrvIdle /\ CodecIdle /\ OtherIdle

\* the tool is invoked and the aggregator starts: results = [], hasMore =
\* true, cursor = null
ToolInvoke ==
    /\ apc = "idle"
    /\ \E e \in Endpoints : ep' = e
    /\ apc' = "loop"
    /\ cursor' = Null
    /\ results' = <<>>
    /\ hasMore' = TRUE
    /\ UNCHANGED <<reqs, served, aout, toolResp>>
    /\ UNCHANGED tvars
    /\ UNCHANGED svars
    /\ UNCHANGED cvars
    /\ UNCHANGED ovars

\* mutant: the next request is sent without waiting for the answer to the
\* request before it
SendRequest_eager ==
    /\ apc \in {"loop", "awaiting"}
    /\ hasMore
    /\ Len(reqs) < MaxRequests
    /\ reqs' = Append(reqs, RequestParams(ep, cursor))
    /\ apc' = "awaiting"
    /\ UNCHANGED <<ep, cursor, results, hasMore, served, aout, toolResp>>
    /\ UNCHANGED tvars
    /\ UNCHANGED svars
    /\ UNCHANGED cvars
    /\ UNCHANGED ovars

\* while (hasMore): the request for the next page is built and sent
SendRequest ==
    /\ apc = "loop"
    /\ hasMore
    /\ Len(reqs) < MaxRequests
    /\ reqs' = Append(reqs, RequestParams(ep, cursor))
    /\ apc' = "awaiting"
    /\ UNCHANGED <<ep, cursor, results, hasMore, served, aout, toolResp>>
    /\ UNCHANGED tvars
    /\ UNCHANGED svars
    /\ UNCHANGED cvars
    /\ UNCHANGED ovars

\* the backend answers the request in flight
BackendServe ==
    /\ apc = "awaiting"
    /\ \E a \in Answers(ep, Len(served) + 1) : served' = Append(served, a)
    /\ apc' = "answered"
    /\ UNCHANGED <<ep, cursor, results, hasMore, reqs, aout, toolResp>>
    /\ UNCHANGED tvars
    /\ UNCHANGED svars
    /\ UNCHANGED cvars
    /\ UNCHANGED ovars

\* makeRequest resumes, and the rest of the loop body runs up to the next
\* await or to the return
ProcessPage ==
    /\ apc = "answered"
    /\ LET a == served[Len(served)]
           r == makeRequest(a.status, a.body)
       IN  IF r.kind = "throw"
           THEN /\ aout' = OnRequestError(results, r.error)
                /\ apc' = "finished"
                /\ UNCHANGED <<cursor, results, hasMore>>
           ELSE LET st == PageStep(ep, r.value, results, cursor)
                IN  IF st.error # Undefined
                    THEN /\ aout' = Throw(st.error)
                         /\ apc' = "finished"
                         /\ UNCHANGED <<cursor, results, hasMore>>
                    ELSE /\ results' = st.results
                         /\ cursor' = st.cursor
                         /\ hasMore' = st.hasMore
                         /\ IF st.hasMore
                            THEN apc' = "loop" /\ aout' = aout
                            ELSE apc' = "finished" /\ aout' = Return(st.results)
    /\ UNCHANGED <<ep, reqs, served, toolResp>>
    /\ UNCHANGED tvars
    /\ UNCHANGED svars
    /\ UNCHANGED cvars
    /\ UNCHANGED ovars

\* the handler answers the tool invocation
ToolRespond ==
    /\ apc = "finished"
    /\ toolResp' = ToolResponse(ep, aout)
    /\ apc' = "responded"
    /\ UNCHANGED <<ep, cursor, results, hasMore, reqs, served, aout>>
    /\ UNCHANGED tvars
    /\ UNCHANGED svars
    /\ UNCHANGED cvars
    /\ UNCHANGED ovars

AggNext == ToolInvoke \/ SendRequest \/ BackendServe \/ ProcessPage \/ ToolRespond

Spec == AggInit /\ [][AggNext]_vars

(***************************************************************************)
(* Aggregator claims.  The premises describe the answers the backend gave  *)
(* (served), character by character; the conclusions are about what the    *)
(* aggregator did with them.                                               *)
(***************************************************************************)
\* every answer served so far has been taken in by the aggregator
Processed == apc \in {"loop", "finished", "responded"}
\* the aggregator has left its loop
Terminated == apc \in {"finished", "responded"}

\* the body is n >= 1 lines, one document of a kind in `kinds` per line
IsPageOf(a, kinds) ==
    /\ a.status = 200
    /\ Len(a.body) % 2 = 1
    /\ \A i \in 1..Len(a.body) :
          IF i % 2 = 1
          THEN a.body[i].c = "doc" /\ a.body[i].kind \in kinds
          ELSE a.body[i] = NL

LineCount(a) == (Len(a.body) + 1) \div 2

\* the nested results of the lines of a page, in line order
NestedOf(a) ==
    [j \in 1..LineCount(a) |-> DocValue(a.body[2 * j - 1]).f.result]

RECURSIVE ConcatPages(_)
ConcatPages(pages) ==
    IF pages = <<>> THEN <<>>
    ELSE NestedOf(Head(pages)) \o ConcatPages(Tail(pages))

\* C1: when the backend serves one query as N >= 1 pages in the
\* array-wrapped shape, every item of pages 1..N-1 carrying the next cursor
\* and the items of the final page carrying none, the aggregator issues
\* exactly N requests and returns the concatenation of the N pages' nested
\* results in page order and item order, nothing duplicated or lost.
C1_DrainsExactlyNPages ==
    LET N == Len(served)
    IN  (/\ N >= 1
         /\ Processed
         /\ \A p \in 1..(N - 1) : IsPageOf(served[p], {"wrapc"})
         /\ IsPageOf(served[N], {"wrap"}))
        => /\ Terminated
           /\ Len(reqs) = N
           /\ aout = Return(ConcatPages(served))

\* the items an endpoint's own test rejects
InvalidKinds(e) ==
    IF e = "readRelationships" THEN {"wrapinv", "noresult"} ELSE {"noresult"}

\* a sequence without any valid item: the empty array, or two or more
\* lines each of which is rejected although it carries a cursor
IsEmptySequence(e, a) ==
    \/ a = Answer(200, <<DocChar("emptyarr", "", 0)>>)
    \/ IsPageOf(a, InvalidKinds(e)) /\ LineCount(a) >= 2

C3_BothFormatsEndToEnd ==
    (/\ Len(served) = 1
     /\ Processed
     /\ IsPageOf(served[1], {"wrapc", "wrap"}))
    => results = NestedOf(served[1])

\* a page has failed: a non-success status, or a line that is not JSON
PageFailed(a) ==
    \/ a.status < 200 \/ a.status > 299
    \/ a.status # 204 /\ ~AllLinesValid(a.body)

\* C4: if the request for any page k fails, the aggregation issues no
\* further request and the caller receives the error; a call in which some
\* page failed never returns a result sequence.
C4_PageFailureAborts ==
    \A k \in 1..Len(served) :
        (PageFailed(served[k]) /\ (k < Len(served) \/ Processed))
        => /\ k = Len(served)
           /\ Len(reqs) = k
           /\ Terminated
           /\ aout.kind = "throw"
           /\ aout.value = Undefined
           /\ aout.error.msg \in {"SpiceDB API error", "Failed to parse JSON line"}

\* the second page fails after the first one delivered results and a cursor
C4_Witness ==
    /\ apc = "finished"
    /\ Len(served) = 2
    /\ IsPageOf(served[1], {"wrapc"})
    /\ Len(results) >= 1
    /\ served[2].status = 500
    /\ aout.kind = "throw"
    /\ aout.error.status = 500

(***************************************************************************)
(* The tool handlers of server.ts (SpiceDBMCPServer).  Each handler reads  *)
(* its parameters, checks the required ones, makes one client call and     *)
(* answers with an MCPToolResponse.                                        *)
(***************************************************************************)
SrvTools ==
    {"readSchema", "writeSchema", "readRelationships", "writeRelationship",
     "deleteRelationships", "checkPermission", "lookupResources",
     "lookupSubjects", "expandPermissionTree"}

\* mutant: writeRelationship forgets to test subjectId
RequiredParams_noSubjectId(tool) ==
    CASE tool = "writeSchema" -> {"schema"}
      [] tool = "writeRelationship" ->
           {"resourceType", "resourceId", "relation", "subjectType"}
      [] tool = "deleteRelationships" -> {"resourceType"}
      [] tool = "checkPermission" ->
           {"resourceType", "resourceId", "permission", "subjectType", "subjectId"}
      [] tool = "lookupResources" ->
           {"resourceType", "permission", "subjectType", "subjectId"}
      [] tool = "lookupSubjects" ->
           {"resourceType", "resourceId", "permission", "subjectType"}
      [] tool = "expandPermissionTree" -> {"resourceType", "resourceId", "permission"}
      [] OTHER -> {}

\* the parameters a handler tests with `if (!a || !b ...) throw`
RequiredParams(tool) ==
    CASE tool = "writeSchema" -> {"schema"}
      [] tool = "writeRelationship" ->
           {"resourceType", "resourceId", "relation", "subjectType", "subjectId"}
      [] tool = "deleteRelationships" -> {"resourceType"}
      [] tool = "checkPermission" ->
           {"resourceType", "resourceId", "permission", "subjectType", "subjectId"}
      [] tool = "lookupResources" ->
           {"resourceType", "permission", "subjectType", "subjectId"}
      [] tool = "lookupSubjects" ->
           {"resourceType", "resourceId", "permission", "subjectType"}
      [] tool = "expandPermissionTree" -> {"resourceType", "resourceId", "permission"}
      [] OTHER -> {}

\* the handlers whose client call stands in an inner try with an empty catch
SwallowsStreamErrors(tool) ==
    tool \in {"readRelationships", "lookupResources", "lookupSubjects"}

SrvError(message) ==
    [status |-> "error", content |-> Undefined,
     error |-> [message |-> message, type |-> "TOOL_EXECUTION_ERROR"]]

SrvSuccess(content) == [status |-> "success", content |-> content, error |-> Undefined]

\* SpiceDBClient.makeRequest of server.ts: axios rejects a status outside
\* 2xx, and the client rethrows it as an Error
SrvMakeRequest(status) ==
    IF status >= 200 /\ status <= 299
    THEN Return(Obj([data |-> Str(status)]))
    ELSE Throw([msg |-> "SpiceDB API Error", status |-> status, text |-> <<>>])

\* the response of a handler once its client call has returned or thrown
SrvResponse(tool, out) ==
    IF SwallowsStreamErrors(tool)
    THEN IF out.kind = "throw"
         THEN SrvSuccess(Arr(<<>>))
         ELSE SrvSuccess(Arr(<<out.value>>))
    ELSE IF out.kind = "throw"
         THEN SrvError(out.error.msg)
         ELSE SrvSuccess(out.value)

ParamValues == {Undefined, EmptyStr, Str(1)}

SrvInit == TransportIdle /\ AggIdle /\ SrvIdle /\ CodecIdle /\ OtherIdle

\* POST /mcp/tools/:name/call with a missing required parameter: the
\* handler throws before its client call, and its catch answers
SrvRejectCall ==
    /\ spc = "idle"
    /\ \E tool \in SrvTools, ps \in [ParamNames -> ParamValues] :
          /\ \E f \in RequiredParams(tool) : ~Truthy(ps[f])
          /\ stool' = tool
          /\ sparams' = ps
          /\ sresp' = SrvError("Missing required parameter")
    /\ spc' = "responded"
    /\ UNCHANGED <<sreqs, sstatus>>
    /\ UNCHANGED tvars
    /\ UNCHANGED avars
    /\ UNCHANGED cvars
    /\ UNCHANGED ovars

\* POST /mcp/tools/:name/call with every required parameter: the handler
\* sends its one backend request and awaits
SrvSendCall ==
    /\ spc = "idle"
    /\ \E tool \in SrvTools, ps \in [ParamNames -> ParamValues] :
          /\ \A f \in RequiredParams(tool) : Truthy(ps[f])
          /\ stool' = tool
          /\ sparams' = ps
    /\ sreqs' = sreqs + 1
    /\ spc' = "awaiting"
    /\ UNCHANGED <<sstatus, sresp>>
    /\ UNCHANGED tvars
    /\ UNCHANGED avars
    /\ UNCHANGED cvars
    /\ UNCHANGED ovars

\* the backend answers the request
SrvBackendAnswer ==
    /\ spc = "awaiting"
    /\ \E st \in {200, 500} : sstatus' = st
    /\ spc' = "answered"
    /\ UNCHANGED <<stool, sparams, sreqs, sresp>>
    /\ UNCHANGED tvars
    /\ UNCHANGED avars
    /\ UNCHANGED cvars
    /\ UNCHANGED ovars

\* the handler resumes and answers the tool call
SrvRespond ==
    /\ spc = "answered"
    /\ sresp' = SrvResponse(stool, SrvMakeRequest(sstatus))
    /\ spc' = "responded"
    /\ UNCHANGED <<stool, sparams, sreqs, sstatus>>
    /\ UNCHANGED tvars
    /\ UNCHANGED avars
    /\ UNCHANGED cvars
    /\ UNCHANGED ovars

SrvNext == SrvRejectCall \/ SrvSendCall \/ SrvBackendAnswer \/ SrvRespond

SpecSrv == SrvInit /\ [][SrvNext]_vars

\* C5: every error raised while serving a tool invocation is turned into an
\* explicit failure response with a message; no invocation whose backend
\* call failed answers with a success response, and no response carries
\* both a result and an error.
C5_ErrorsBecomeFailureResponses ==
    spc = "responded"
    => /\ ~(sresp.content # Undefined /\ sresp.error # Undefined)
       /\ (sreqs >= 1 /\ (sstatus < 200 \/ sstatus > 299))
            => (sresp.status = "error" /\ sresp.error # Undefined)

\* the fields the claim calls required, tool by tool
ClaimedRequired(tool) ==
    CASE tool \in {"writeRelationship"} ->
           {"resourceType", "resourceId", "relation", "subjectType", "subjectId"}
      [] tool = "checkPermission" ->
           {"resourceType", "resourceId", "permission", "subjectType", "subjectId"}
      [] tool = "lookupResources" ->
           {"resourceType", "permission", "subjectType", "subjectId"}
      [] tool = "lookupSubjects" ->
           {"resourceType", "resourceId", "permission", "subjectType"}
      [] tool = "expandPermissionTree" -> {"resourceType", "resourceId", "permission"}
      [] tool = "writeSchema" -> {"schema"}
      [] tool = "deleteRelationships" -> {"resourceType"}
      [] OTHER -> {}

CodecInit == TransportIdle /\ AggIdle /\ SrvIdle /\ CodecIdle /\ OtherIdle

\* parseRelationshipString(s) for a text s in the notation
CodecParse ==
    /\ cpc = "idle"
    /\ \E s \in ValidRelationshipStrings :
          /\ cin' = s
          /\ cparsed' = parseRelationshipString(s)
    /\ cpc' = "parsed"
    /\ UNCHANGED <<crel, ctext>>
    /\ UNCHANGED <<tvars, avars, svars, ovars>>

\* the fields of the parse go through createRelationship and the formatters
CodecFormatParsed ==
    /\ cpc = "parsed"
    /\ cparsed.ok
    /\ crel' = createRelationship(cparsed.resourceType, cparsed.resourceId,
                                  cparsed.relation, cparsed.subjectType,
                                  cparsed.subjectId, cparsed.optionalSubjectRelation)
    /\ ctext' = relationshipString(crel')
    /\ cpc' = "formatted"
    /\ UNCHANGED <<cin, cparsed>>
    /\ UNCHANGED <<tvars, avars, svars, ovars>>

\* a valid relationship is formatted
CodecFormat ==
    /\ cpc = "idle"
    /\ \E r \in ValidRelationships :
          /\ crel' = r
          /\ ctext' = relationshipString(r)
    /\ cpc' = "written"
    /\ UNCHANGED <<cin, cparsed>>
    /\ UNCHANGED <<tvars, avars, svars, ovars>>

\* the formatted text is parsed again
CodecParseFormatted ==
    /\ cpc = "written"
    /\ cparsed' = parseRelationshipString(ctext)
    /\ cpc' = "reparsed"
    /\ UNCHANGED <<cin, crel, ctext>>
    /\ UNCHANGED <<tvars, avars, svars, ovars>>

\* the characters of an arbitrary text: a name character and the separators
TextChars == {"a", ":", "#", "@"}

\* parseRelationshipString(s) for any text s, in the notation or not
CodecParseAny ==
    /\ cpc = "idle"
    /\ \E s \in SeqsUpTo(TextChars, MaxText) :
          /\ cin' = s
          /\ cparsed' = parseRelationshipString(s)
    /\ cpc' = "parsedAny"
    /\ UNCHANGED <<crel, ctext>>
    /\ UNCHANGED <<tvars, avars, svars, ovars>>

CodecNext ==
    CodecParse \/ CodecFormatParsed \/ CodecFormat \/ CodecParseFormatted \/ CodecParseAny

SpecCodec == CodecInit /\ [][CodecNext]_vars

\* C10: for every text s in the notation, with or without a trailing
\* #subjectRelation, formatting the fields parseRelationshipString(s)
\* returns gives back s; and for every valid relationship r, parsing its
\* formatted text gives back r's six fields.
C10_RoundTrip ==
    /\ cpc = "parsed" => cparsed.ok
    /\ cpc = "formatted" => ctext = cin
    /\ cpc = "reparsed"
         => /\ cparsed.ok
            /\ cparsed.resourceType = crel.resource.objectType
            /\ cparsed.resourceId = crel.resource.objectId
            /\ cparsed.relation = crel.relation
            /\ cparsed.subjectType = crel.subject.object.objectType
            /\ cparsed.subjectId = crel.subject.object.objectId
            /\ cparsed.optionalSubjectRelation = crel.subject.optionalRelation

\* the positions of a character in a text, and the text's cuts at them
PositionsOf(s, ch) == {i \in 1..Len(s) : s[i] = ch}

CountOf(s, ch) == Cardinality(PositionsOf(s, ch))

FirstOf(s, ch) == CHOOSE i \in PositionsOf(s, ch) : \A j \in PositionsOf(s, ch) : i <= j

Before(s, ch) == SubSeq(s, 1, FirstOf(s, ch) - 1)

After(s, ch) == SubSeq(s, FirstOf(s, ch) + 1, Len(s))

\* C11: for an input type:id#relation@type:id#subjectRelation,
\* parseRelationshipString returns optionalSubjectRelation equal to the text
\* after the second '#', and returns it undefined exactly when the input has
\* no second '#'.
C11_SubjectRelationParsed ==
    cpc = "parsed"
      => /\ cparsed.ok
         /\ IF CountOf(cin, "#") >= 2
            THEN cparsed.optionalSubjectRelation = Some(After(After(cin, "#"), "#"))
            ELSE cparsed.optionalSubjectRelation = None

\* the subject segment of a text with one '@' after its first '#': what
\* follows the '@', up to a second '#' if there is one
SubjectSegment(s) ==
    LET rest == After(After(s, "#"), "@")
    IN  IF CountOf(rest, "#") = 0 THEN rest ELSE Before(rest, "#")

\* the four ways of C12 in which a text is not in the notation
Malformed(s) ==
    \/ CountOf(s, "#") = 0
    \/ CountOf(Before(s, "#"), ":") # 1
    \/ CountOf(After(s, "#"), "@") # 1
    \/ CountOf(SubjectSegment(s), ":") # 1

\* C12: parseRelationshipString fails with a format error, and returns no
\* fields, for every input that has no '#', whose resource segment does not
\* contain exactly one ':', whose portion after the first '#' does not
\* contain exactly one '@', or whose subject segment does not contain
\* exactly one ':'.
C12_MalformedInputFails ==
    (cpc = "parsedAny" /\ Malformed(cin)) => ~cparsed.ok

(***************************************************************************)
(* createRelationshipFilter of SpiceDBClient (index.ts), as the            *)
(* relationships resource and the read-relationships tool call it: every   *)
(* argument is undefined, the empty string or a name.                      *)
(***************************************************************************)
\* a filter that has a subject part whenever any subject argument is given
createRelationshipFilter_subjectAlways(resourceType, resourceId, relation, subjectType, subjectId, subjectRelation) ==
    LET subjectKeys == {"subjectType"}
                         \cup (IF Truthy(subjectId) THEN {"optionalSubjectId"} ELSE {})
                         \cup (IF Truthy(subjectRelation) THEN {"optionalRelation"} ELSE {})
        subjectFilter ==
            Obj([k \in subjectKeys |->
                   CASE k = "subjectType" -> subjectType
                     [] k = "optionalSubjectId" -> subjectId
                     [] k = "optionalRelation" ->
                          Obj([r \in {"relation"} |-> subjectRelation])])
        keys == (IF Truthy(resourceType) THEN {"resourceType"} ELSE {})
                  \cup (IF Truthy(resourceId) THEN {"optionalResourceId"} ELSE {})
                  \cup (IF Truthy(relation) THEN {"optionalRelation"} ELSE {})
                  \cup (IF Truthy(subjectType) \/ Truthy(subjectId) \/ Truthy(subjectRelation)
                        THEN {"optionalSubjectFilter"} ELSE {})
    IN  Obj([k \in keys |->
               CASE k = "resourceType" -> resourceType
                 [] k = "optionalResourceId" -> resourceId
                 [] k = "optionalRelation" -> relation
                 [] k = "optionalSubjectFilter" -> subjectFilter])

\* SpiceDBClient.createRelationshipFilter
createRelationshipFilter(resourceType, resourceId, relation, subjectType, subjectId, subjectRelation) ==
    LET subjectKeys == {"subjectType"}
                         \cup (IF Truthy(subjectId) THEN {"optionalSubjectId"} ELSE {})
                         \cup (IF Truthy(subjectRelation) THEN {"optionalRelation"} ELSE {})
        subjectFilter ==
            Obj([k \in subjectKeys |->
                   CASE k = "subjectType" -> subjectType
                     [] k = "optionalSubjectId" -> subjectId
                     [] k = "optionalRelation" ->
                          Obj([r \in {"relation"} |-> subjectRelation])])
        keys == (IF Truthy(resourceType) THEN {"resourceType"} ELSE {})
                  \cup (IF Truthy(resourceId) THEN {"optionalResourceId"} ELSE {})
                  \cup (IF Truthy(relation) THEN {"optionalRelation"} ELSE {})
                  \cup (IF Truthy(subjectType) THEN {"optionalSubjectFilter"} ELSE {})
    IN  Obj([k \in keys |->
               CASE k = "resourceType" -> resourceType
                 [] k = "optionalResourceId" -> resourceId
                 [] k = "optionalRelation" -> relation
                 [] k = "optionalSubjectFilter" -> subjectFilter])

\* the name each argument carries when it is given
ArgName(a) ==
    CASE a = "resourceType" -> "document"
      [] a = "resourceId" -> "readme"
      [] a = "relation" -> "viewer"
      [] a = "subjectType" -> "group"
      [] a = "subjectId" -> "engineering"
      [] a = "subjectRelation" -> "member"

ArgValues(a) == {Undefined, EmptyStr, Str(ArgName(a))}

FilterInit == TransportIdle /\ AggIdle /\ SrvIdle /\ CodecIdle /\ OtherIdle

\* the handler reads its six parameters
FilterReadParams ==
    /\ fpc = "idle"
    /\ \E args \in [FilterArgs -> UNION {ArgValues(a) : a \in FilterArgs}] :
          /\ \A a \in FilterArgs : args[a] \in ArgValues(a)
          /\ fargs' = args
    /\ fpc' = "called"
    /\ UNCHANGED filter
    /\ UNCHANGED <<tvars, avars, svars, cvars, xvars, dvars, kvars>>

\* spiceDB.createRelationshipFilter(resourceType, ..., subjectRelation)
FilterBuild ==
    /\ fpc = "called"
    /\ filter' = createRelationshipFilter(fargs.resourceType, fargs.resourceId,
                                          fargs.relation, fargs.subjectType,
                                          fargs.subjectId, fargs.subjectRelation)
    /\ fpc' = "built"
    /\ UNCHANGED fargs
    /\ UNCHANGED <<tvars, avars, svars, cvars, xvars, dvars, kvars>>

FilterNext == FilterReadParams \/ FilterBuild

SpecFilter == FilterInit /\ [][FilterNext]_vars

\* the key of the filter an argument is stored under, outside the subject part
TopKey(a) ==
    CASE a = "resourceType" -> "resourceType"
      [] a = "resourceId" -> "optionalResourceId"
      [] a = "relation" -> "optionalRelation"

\* C13: createRelationshipFilter returns an object with a key only for each
\* argument that is present and non-empty (resourceType, optionalResourceId,
\* optionalRelation); it contains optionalSubjectFilter if and only if
\* subjectType is present and non-empty; with only resourceType = "document"
\* it returns exactly {resourceType: "document"}.
C13_FilterOmitsAbsentFields ==
    fpc = "built"
      => /\ filter.t = "obj"
         /\ \A a \in {"resourceType", "resourceId", "relation"} :
               /\ HasKey(filter, TopKey(a)) <=> Truthy(fargs[a])
               /\ HasKey(filter, TopKey(a)) => Get(filter, TopKey(a)) = fargs[a]
         /\ HasKey(filter, "optionalSubjectFilter") <=> Truthy(fargs.subjectType)
         /\ DOMAIN filter.f \subseteq
              {"resourceType", "optionalResourceId", "optionalRelation", "optionalSubjectFilter"}
         /\ (/\ fargs.resourceType = Str("document")
             /\ \A a \in FilterArgs \ {"resourceType"} : ~Truthy(fargs[a]))
              => /\ DOMAIN filter.f = {"resourceType"}
                 /\ filter.f["resourceType"] = Str("document")

\* a subject id and a subject relation are given without a subject type
C13_Witness ==
    /\ fpc = "built"
    /\ Truthy(fargs.resourceType)
    /\ ~Truthy(fargs.subjectType)
    /\ Truthy(fargs.subjectId)
    /\ Truthy(fargs.subjectRelation)
    /\ DOMAIN filter.f = {"resourceType"}

(***************************************************************************)
(* The check-permission tool of index.ts: the headline of the answer and   *)
(* the explanation generateTraceExplanation renders from the debug trace.  *)
(* A string of the backend is a sequence of words; a rendered line is its  *)
(* indentation, a sequence of blanks, and its fields.                      *)
(***************************************************************************)
\* str.replace(word, ''): the first occurrence is removed
Replace(str, word) ==
    IF \E i \in 1..Len(str) : str[i] = word
    THEN LET i == CHOOSE k \in 1..Len(str) :
                     str[k] = word /\ \A j \in 1..(k - 1) : str[j] # word
         IN  SubSeq(str, 1, i - 1) \o SubSeq(str, i + 1, Len(str))
    ELSE str

RECURSIVE Repeat(_, _)
\* str.repeat(n)
Repeat(str, n) == IF n = 0 THEN <<>> ELSE str \o Repeat(str, n - 1)

\* an indentation of one blank per level
Indent_oneBlank(depth) == Repeat(<<" ">>, depth)

\* '  '.repeat(depth)
Indent(depth) == Repeat(<<" ", " ">>, depth)

\* trace.permissionType === 'PERMISSION_TYPE_PERMISSION' ? 'permission' : 'relation'
PermissionTypeLabel(permissionType) ==
    IF permissionType = "PERMISSION_TYPE_PERMISSION" THEN "permission" ELSE "relation"

\* the result left as the backend sent it
ResultStr_raw(result) == result

\* trace.result.replace('PERMISSIONSHIP_', '')
ResultStr(result) == Replace(result, "PERMISSIONSHIP_")

\* the subject of a trace as the explanation shows it
SubjectStr(subject) ==
    IF subject.object # Null
    THEN subjectRefToString(subject)
    ELSE <<"unknown subject">>

CheckLine(indent, subjectStr, permissionType, permissionStr, resourceStr, result) ==
    [indent |-> indent, kind |-> "Checking if", subjectStr |-> subjectStr,
     permissionType |-> permissionType, permissionStr |-> permissionStr,
     resourceStr |-> resourceStr, result |-> result, duration |-> ""]

TookLine(indent, duration) ==
    [indent |-> indent, kind |-> "(took", subjectStr |-> <<>>,
     permissionType |-> "", permissionStr |-> "",
     resourceStr |-> <<>>, result |-> <<>>, duration |-> duration]

DeterminedLine(indent) ==
    [indent |-> indent, kind |-> "This was determined by:", subjectStr |-> <<>>,
     permissionType |-> "", permissionStr |-> "",
     resourceStr |-> <<>>, result |-> <<>>, duration |-> ""]

\* 'No trace data available': no indent and no line break
NoTraceLine ==
    [indent |-> <<>>, kind |-> "No trace data available", subjectStr |-> <<>>,
     permissionType |-> "", permissionStr |-> "",
     resourceStr |-> <<>>, result |-> <<>>, duration |-> ""]

\* mutant: the sub-problems are announced whenever the node has the field
HasSubTraces_whenPresent(trace) ==
    /\ trace.subProblems # Undefined
    /\ "traces" \in DOMAIN trace.subProblems

\* trace.subProblems && trace.subProblems.traces &&
\* trace.subProblems.traces.length > 0
HasSubTraces(trace) ==
    /\ trace.subProblems # Undefined
    /\ "traces" \in DOMAIN trace.subProblems
    /\ Len(trace.subProblems.traces) > 0

RECURSIVE generateTraceExplanation(_, _), ExplainSubTraces(_, _)
\* generateTraceExplanation of index.ts: the lines of the text it returns
generateTraceExplanation(trace, depth) ==
    IF trace = Null THEN <<NoTraceLine>> ELSE
    LET indent == Indent(depth)
        line == CheckLine(indent, SubjectStr(trace.subject),
                          PermissionTypeLabel(trace.permissionType), trace.permission,
                          objectRefToString(trace.resource), ResultStr(trace.result))
        took == IF trace.duration # "" THEN <<TookLine(indent, trace.duration)>> ELSE <<>>
        subs == IF HasSubTraces(trace)
                THEN <<DeterminedLine(indent)>>
                       \o ExplainSubTraces(trace.subProblems.traces, depth + 1)
                ELSE <<>>
    IN  <<line>> \o took \o subs

\* mutant: only the first sub-trace is explained
ExplainSubTraces_firstOnly(traces, depth) ==
    IF traces = <<>> THEN <<>>
    ELSE generateTraceExplanation(Head(traces), depth)

\* for (const subTrace of trace.subProblems.traces) explanation += ...
ExplainSubTraces(traces, depth) ==
    IF traces = <<>> THEN <<>>
    ELSE generateTraceExplanation(Head(traces), depth) \o ExplainSubTraces(Tail(traces), depth)

\* the switch of the check-permission handler on response.permissionship
Headline(permissionship) ==
    CASE permissionship = <<"PERMISSIONSHIP_", "NO_PERMISSION">> -> "NO PERMISSION"
      [] permissionship = <<"PERMISSIONSHIP_", "HAS_PERMISSION">> -> "HAS PERMISSION"
      [] permissionship = <<"PERMISSIONSHIP_", "CONDITIONAL_PERMISSION">> -> "CONDITIONAL PERMISSION"
      [] OTHER -> "UNKNOWN"

\* the values of the backend's Permissionship
Permissionships ==
    {<<"PERMISSIONSHIP_", "UNSPECIFIED">>, <<"PERMISSIONSHIP_", "NO_PERMISSION">>,
     <<"PERMISSIONSHIP_", "HAS_PERMISSION">>, <<"PERMISSIONSHIP_", "CONDITIONAL_PERMISSION">>}

\* what one node of a debug trace says about its own check
TraceLabels ==
    {[permission |-> p, result |-> v[1], permissionType |-> v[2], duration |-> v[3]] :
        p \in {"view", "edit"},
        v \in {<<<<"PERMISSIONSHIP_", "HAS_PERMISSION">>, "PERMISSION_TYPE_PERMISSION", "">>,
               <<<<"PERMISSIONSHIP_", "NO_PERMISSION">>, "PERMISSION_TYPE_RELATION", "1ms">>,
               <<<<"PERMISSIONSHIP_", "CONDITIONAL_PERMISSION">>, "PERMISSION_TYPE_PERMISSION", "1ms">>,
               <<<<"PERMISSIONSHIP_", "HAS_PERMISSION">>, "PERMISSION_TYPE_UNSPECIFIED", "">>}}

TraceNode(label, traces) ==
    [resource |-> [objectType |-> <<"document">>, objectId |-> <<"readme">>],
     permission |-> label.permission,
     permissionType |-> label.permissionType,
     subject |-> [object |-> [objectType |-> <<"user">>, objectId |-> <<"alice">>],
                  optionalRelation |-> None],
     result |-> label.result,
     duration |-> label.duration,
     subProblems |-> [traces |-> traces]]

RECURSIVE TracesOf(_), TraceListsOf(_)
\* the debug traces of exactly n nodes, and the lists of traces of m nodes
TracesOf(n) ==
    IF n = 0 THEN {}
    ELSE {TraceNode(l, f) : l \in TraceLabels, f \in TraceListsOf(n - 1)}

TraceListsOf(m) ==
    IF m = 0 THEN {<<>>}
    ELSE UNION {{<<t>> \o f : t \in TracesOf(k), f \in TraceListsOf(m - k)} : k \in 1..m}

TraceInit == TransportIdle /\ AggIdle /\ SrvIdle /\ CodecIdle /\ OtherIdle

\* spiceDB.checkPermission({... withTracing: true}) answers
CheckPermissionAnswer ==
    /\ xpc = "idle"
    /\ \E p \in Permissionships :
       \E t \in {Null} \cup UNION {TracesOf(n) : n \in 1..MaxNodes} :
          checkResponse' = [permissionship |-> p, debugTrace |-> [check |-> t]]
    /\ xpc' = "answered"
    /\ UNCHANGED <<headline, explanation, explained>>
    /\ UNCHANGED <<tvars, avars, svars, cvars, fvars, dvars, kvars>>

\* the handler picks the headline and renders the trace, if there is one
RenderAnswer ==
    /\ xpc = "answered"
    /\ headline' = Headline(checkResponse.permissionship)
    /\ explanation' = IF checkResponse.debugTrace.check # Null
                      THEN generateTraceExplanation(checkResponse.debugTrace.check, 0)
                      ELSE <<>>
    /\ xpc' = "rendered"
    /\ UNCHANGED <<checkResponse, explained>>
    /\ UNCHANGED <<tvars, avars, svars, cvars, fvars, dvars, kvars>>

\* a node as the backend sends it when it leaves out subProblems, or sends
\* as subProblems an object without traces
WithSubProblems(node, subProblems) == [node EXCEPT !.subProblems = subProblems]

BareLeaves ==
    {WithSubProblems(TraceNode(l, <<>>), sp) :
        l \in TraceLabels, sp \in {Undefined, [t |-> "obj"]}}

\* the values generateTraceExplanation is called with: no trace, a trace of
\* fewer than MaxNodes nodes, a node without sub-traces, a node over such a
\* node and a leaf
TraceArguments ==
    {Null} \cup UNION {TracesOf(n) : n \in 1..(MaxNodes - 1)} \cup BareLeaves
      \cup {TraceNode(l, <<b, c>>) : l \in TraceLabels, b \in BareLeaves, c \in TracesOf(1)}

\* generateTraceExplanation(trace, depth) is called and returns
ExplainTrace ==
    /\ xpc = "idle"
    /\ \E t \in TraceArguments : \E d \in {0, 1} :
          explained' = [trace |-> t, depth |-> d, text |-> generateTraceExplanation(t, d)]
    /\ xpc' = "explained"
    /\ UNCHANGED <<checkResponse, headline, explanation>>
    /\ UNCHANGED <<tvars, avars, svars, cvars, fvars, dvars, kvars>>

TraceNext == CheckPermissionAnswer \/ RenderAnswer \/ ExplainTrace

SpecTrace == TraceInit /\ [][TraceNext]_vars

\* the children of a node of a trace: none when subProblems or its traces
\* are left out
ChildrenOf(node) ==
    IF node.subProblems = Undefined THEN <<>>
    ELSE IF "traces" \notin DOMAIN node.subProblems THEN <<>>
    ELSE node.subProblems.traces

RECURSIVE PreOrder(_, _), PreOrderAll(_, _)
\* the nodes of a trace, each with its depth: a node, then the nodes of its
\* first child, then those of its second child, and so on
PreOrder(node, depth) ==
    <<[node |-> node, depth |-> depth]>> \o PreOrderAll(ChildrenOf(node), depth + 1)

PreOrderAll(nodes, depth) ==
    IF nodes = <<>> THEN <<>>
    ELSE PreOrder(Head(nodes), depth) \o PreOrderAll(Tail(nodes), depth)

\* the 'Checking if' lines of an explanation, in the order of the text
CheckLines(text) == SelectSeq(text, LAMBDA l : l.kind = "Checking if")

\* the last 'Checking if' line at or before line j
OwnerOf(text, j) ==
    CHOOSE i \in 1..j :
        /\ text[i].kind = "Checking if"
        /\ \A k \in (i + 1)..j : text[k].kind # "Checking if"

Rendered == xpc = "rendered" /\ checkResponse.debugTrace.check # Null

\* C14: generateTraceExplanation renders a trace tree in pre-order: a node's
\* 'Checking if' line comes before the lines of all its descendants, the
\* children of a node are rendered in the order of subProblems.traces, and a
\* node at depth d has every one of its lines prefixed by 2*d blanks.
C14_PreOrderIndented ==
    Rendered
      => LET nodes == PreOrder(checkResponse.debugTrace.check, 0)
             lines == CheckLines(explanation)
         IN  /\ Len(lines) = Len(nodes)
             /\ explanation[1].kind = "Checking if"
             /\ \A i \in 1..Len(nodes) :
                   /\ lines[i].permissionStr = nodes[i].node.permission
                   /\ lines[i].indent = [k \in 1..(2 * nodes[i].depth) |-> " "]
             /\ \A j \in 1..Len(explanation) :
                   explanation[j].indent = explanation[OwnerOf(explanation, j)].indent

\* a root with two different children, one of them with a duration line
C14_Witness ==
    /\ Rendered
    /\ LET children == checkResponse.debugTrace.check.subProblems.traces
       IN  /\ Len(children) = 2
           /\ children[1].permission # children[2].permission
           /\ children[1].duration # ""
    /\ Len(explanation) >= 5

\* C15: for every trace node the rendered line shows the result with the
\* prefix PERMISSIONSHIP_ removed, the headline of a
\* PERMISSIONSHIP_HAS_PERMISSION answer is HAS PERMISSION, and the check is
\* labelled "permission" exactly when permissionType is
\* PERMISSION_TYPE_PERMISSION and "relation" for every other value.
C15_PrefixStrippedAndLabelled ==
    /\ (xpc = "rendered"
        /\ checkResponse.permissionship = <<"PERMISSIONSHIP_", "HAS_PERMISSION">>)
         => headline = "HAS PERMISSION"
    /\ Rendered
         => LET nodes == PreOrder(checkResponse.debugTrace.check, 0)
                lines == CheckLines(explanation)
            IN  /\ Len(lines) = Len(nodes)
                /\ \A i \in 1..Len(nodes) :
                      /\ <<"PERMISSIONSHIP_">> \o lines[i].result = nodes[i].node.result
                      /\ \A k \in 1..Len(lines[i].result) :
                            lines[i].result[k] # "PERMISSIONSHIP_"
                      /\ IF nodes[i].node.permissionType = "PERMISSION_TYPE_PERMISSION"
                         THEN lines[i].permissionType = "permission"
                         ELSE lines[i].permissionType = "relation"

\* a HAS_PERMISSION answer whose trace holds a permission check and a check
\* of another type
C15_Witness ==
    /\ Rendered
    /\ headline = "HAS PERMISSION"
    /\ \E i, j \in 1..Len(explanation) :
          /\ explanation[i].permissionType = "permission"
          /\ explanation[j].permissionType = "relation"
          /\ explanation[j].result = <<"HAS_PERMISSION">>

(***************************************************************************)
(* The schema helpers of index.ts: extractObjectDefinitionsFromSchema of   *)
(* the read-schema tool and the lookup of the object-definition resource.  *)
(* A schema text is a sequence of words: the keyword, a blank, a name, a   *)
(* brace, a line break, or a run of other characters without braces.       *)
(***************************************************************************)
\* str.startsWith(prefix)
StartsWith(str, prefix) ==
    Len(prefix) <= Len(str) /\ SubSeq(str, 1, Len(prefix)) = prefix

\* line.trim(): the blanks at both ends are dropped
TrimBlanks(line) ==
    IF \A i \in 1..Len(line) : line[i] = " " THEN <<>>
    ELSE LET first == CHOOSE i \in 1..Len(line) :
                         line[i] # " " /\ \A j \in 1..(i - 1) : line[j] = " "
             last == CHOOSE i \in 1..Len(line) :
                         line[i] # " " /\ \A j \in (i + 1)..Len(line) : line[j] = " "
         IN  SubSeq(line, first, last)

\* the names \w+ matches
Identifiers == {"user", "doc"}

\* the matches of /definition\s+(\w+)\s*{/ in a line: where the keyword
\* stands, where the name stands and where the brace stands
DefinitionMatches(line) ==
    {m \in (1..Len(line)) \X (1..Len(line)) \X (1..Len(line)) :
        /\ m[1] < m[2] - 1
        /\ m[2] < m[3]
        /\ line[m[1]] = "definition"
        /\ \A k \in (m[1] + 1)..(m[2] - 1) : line[k] = " "
        /\ line[m[2]] \in Identifiers
        /\ \A k \in (m[2] + 1)..(m[3] - 1) : line[k] = " "
        /\ line[m[3]] = "{"}

\* match[1] of the leftmost match
MatchedName(line) ==
    LET m == CHOOSE x \in DefinitionMatches(line) :
                 \A y \in DefinitionMatches(line) : x[1] <= y[1]
    IN  line[m[2]]

\* (line.match(/{/g) || []).length, and the same for the closing brace
BraceCount(line, brace) == Cardinality({i \in 1..Len(line) : line[i] = brace})

\* one turn of the loop of extractObjectDefinitionsFromSchema
ExtractLine(st, line) ==
    LET trimmedLine == TrimBlanks(line)
    IN  IF /\ StartsWith(trimmedLine, <<"definition", " ">>)
           /\ DefinitionMatches(trimmedLine) # {}
        THEN [st EXCEPT !.insideDefinition = TRUE,
                        !.currentObjectType = MatchedName(trimmedLine),
                        !.currentDef = <<line>>,
                        !.braceCount = 1]
        ELSE IF st.insideDefinition
        THEN LET count == st.braceCount + BraceCount(line, "{") - BraceCount(line, "}")
             IN  IF count = 0
                 THEN [st EXCEPT !.objectDefResources = Append(@, st.currentObjectType),
                                 !.insideDefinition = FALSE,
                                 !.currentDef = <<>>,
                                 !.currentObjectType = "",
                                 !.braceCount = count]
                 ELSE [st EXCEPT !.currentDef = Append(@, line),
                                 !.braceCount = count]
        ELSE st

RECURSIVE ExtractLoop(_, _)
ExtractLoop(st, lines) ==
    IF lines = <<>> THEN st ELSE ExtractLoop(ExtractLine(st, Head(lines)), Tail(lines))

\* extractObjectDefinitionsFromSchema: the names of the resources it
\* returns, in the order it pushed them
extractObjectDefinitionsFromSchema(text) ==
    IF text = <<>> THEN <<>>
    ELSE ExtractLoop([objectDefResources |-> <<>>, currentDef |-> <<>>,
                      currentObjectType |-> "", insideDefinition |-> FALSE,
                      braceCount |-> 0],
                     SplitOn(text, "\n")).objectDefResources

\* one turn of the loop of the object-definition resource
LookupLine(st, line, name) ==
    LET starts == /\ ~st.insideDefinition
                  /\ StartsWith(line, <<"definition", " ", name, " ", "{">>)
        inside == starts \/ st.insideDefinition
        count == (IF starts THEN 1 ELSE st.braceCount)
                   + BraceCount(line, "{") - BraceCount(line, "}")
    IN  IF inside
        THEN [definition |-> Append(st.definition, line),
              insideDefinition |-> count # 0,
              braceCount |-> count]
        ELSE st

RECURSIVE LookupLoop(_, _, _)
LookupLoop(st, lines, name) ==
    IF lines = <<>> THEN st
    ELSE LookupLoop(LookupLine(st, Head(lines), name), Tail(lines), name)

\* the text the object-definition resource answers with
LookupDefinition(text, name) ==
    LET found == LookupLoop([definition |-> <<>>, insideDefinition |-> FALSE,
                             braceCount |-> 0],
                            SplitOn(text, "\n"), name).definition
    IN  IF found = <<>>
        THEN [kind |-> "No definition found", lines |-> <<>>]
        ELSE [kind |-> "definition", lines |-> found]

\* the lines a schema is written with
OpeningLine(name) == <<"definition", " ", name, " ", "{">>

OneLineBlock(name) == <<"definition", " ", name, " ", "{", "}">>

ClosingLine == <<"}">>

RelationLine == <<" ", " ", "relation viewer: user">>

SchemaLines ==
    {OpeningLine(n) : n \in Identifiers} \cup {OneLineBlock(n) : n \in Identifiers}
      \cup {ClosingLine, RelationLine}

RECURSIVE JoinWith(_, _)
\* lines.join(sep)
JoinWith(lines, sep) ==
    IF lines = <<>> THEN <<>>
    ELSE IF Len(lines) = 1 THEN lines[1]
    ELSE lines[1] \o <<sep>> \o JoinWith(Tail(lines), sep)

SchemaInit == TransportIdle /\ AggIdle /\ SrvIdle /\ CodecIdle /\ OtherIdle

\* spiceDB.readSchema answers with a schema text
ReadSchemaText ==
    /\ dpc = "idle"
    /\ \E n \in 1..MaxSchemaLines : \E lines \in [1..n -> SchemaLines] :
          schemaText' = JoinWith(lines, "\n")
    /\ dpc' = "read"
    /\ UNCHANGED <<objectDefResources, objectType, definition>>
    /\ UNCHANGED <<tvars, avars, svars, cvars, fvars, xvars, kvars>>

\* the read-schema tool lists the definitions of the schema
ListDefinitions ==
    /\ dpc = "read"
    /\ objectDefResources' = extractObjectDefinitionsFromSchema(schemaText)
    /\ dpc' = "listed"
    /\ UNCHANGED <<schemaText, objectType, definition>>
    /\ UNCHANGED <<tvars, avars, svars, cvars, fvars, xvars, kvars>>

\* the resource spicedb://definition/{objectType} is read
ReadDefinition ==
    /\ dpc = "read"
    /\ \E name \in Identifiers :
          /\ objectType' = name
          /\ definition' = LookupDefinition(schemaText, name)
    /\ dpc' = "looked up"
    /\ UNCHANGED <<schemaText, objectDefResources>>
    /\ UNCHANGED <<tvars, avars, svars, cvars, fvars, xvars, kvars>>

SchemaNext == ReadSchemaText \/ ListDefinitions \/ ReadDefinition

SpecSchema == SchemaInit /\ [][SchemaNext]_vars

\* the lines of the schema that was read
LinesOfSchema == SplitOn(schemaText, "\n")

\* a line 'definition <identifier> {', with or without text after the brace
OpensBlock(line) ==
    \E n \in Identifiers : StartsWith(line, <<"definition", " ", n, " ", "{">>)

\* the braces a line opens less the braces it closes
Net(line) == BraceCount(line, "{") - BraceCount(line, "}")

\* the blocks of a schema, read line by line with every brace counted: the
\* blocks that are closed, the line of the block that is open, its balance,
\* and whether every line met so far was where the grammar allows it
BlockLine(st, lines, i) ==
    IF st.openAt = 0
    THEN IF OpensBlock(lines[i])
         THEN IF Net(lines[i]) = 0
              THEN [st EXCEPT !.blocks = Append(@, [name |-> lines[i][3], from |-> i, to |-> i])]
              ELSE [st EXCEPT !.openAt = i, !.balance = Net(lines[i]),
                              !.ok = @ /\ Net(lines[i]) > 0]
         ELSE [st EXCEPT !.ok = @ /\ BraceCount(lines[i], "{") = 0
                                  /\ BraceCount(lines[i], "}") = 0]
    ELSE IF OpensBlock(lines[i])
         THEN [st EXCEPT !.ok = FALSE]
         ELSE IF st.balance + Net(lines[i]) = 0
              THEN [st EXCEPT !.blocks = Append(@, [name |-> lines[st.openAt][3],
                                                    from |-> st.openAt, to |-> i]),
                              !.openAt = 0, !.balance = 0]
              ELSE [st EXCEPT !.balance = @ + Net(lines[i]),
                              !.ok = @ /\ st.balance + Net(lines[i]) > 0]

RECURSIVE BlockScan(_, _, _)
BlockScan(st, lines, i) ==
    IF i > Len(lines) THEN st ELSE BlockScan(BlockLine(st, lines, i), lines, i + 1)

BlocksOfSchema ==
    BlockScan([blocks |-> <<>>, openAt |-> 0, balance |-> 0, ok |-> TRUE], LinesOfSchema, 1)

\* every block of the schema is opened by a definition line and balanced
WellFormedSchema == BlocksOfSchema.ok /\ BlocksOfSchema.openAt = 0

\* the end of the text is reached while the block of name is open, and the
\* schema has no other block of that name
UnterminatedAtEnd(name) ==
    /\ BlocksOfSchema.ok
    /\ BlocksOfSchema.openAt > 0
    /\ LinesOfSchema[BlocksOfSchema.openAt][3] = name
    /\ \A k \in 1..Len(BlocksOfSchema.blocks) : BlocksOfSchema.blocks[k].name # name

\* C16: for a schema text in which each definition block is opened by a line
\* 'definition <identifier> {' and its braces balance (a block opened and
\* closed on one line included), extractObjectDefinitionsFromSchema yields
\* exactly one entry per block, in schema order, named by the block's
\* identifier.
C16_OneEntryPerBlock ==
    (dpc = "listed" /\ WellFormedSchema)
      => objectDefResources =
           [k \in 1..Len(BlocksOfSchema.blocks) |-> BlocksOfSchema.blocks[k].name]

\* C17: if the schema reaches the end of the text while a definition block
\* for x is still open, extractObjectDefinitionsFromSchema yields no entry
\* for x and the single-definition lookup for x answers 'not found'.
C17_NoPartialBlock ==
    /\ dpc = "listed"
         => \A x \in Identifiers :
               UnterminatedAtEnd(x)
                 => \A k \in 1..Len(objectDefResources) : objectDefResources[k] # x
    /\ (dpc = "looked up" /\ UnterminatedAtEnd(objectType))
         => definition.kind = "No definition found"

\* C18: the single-definition lookup returns, when the schema contains a
\* balanced block for objectType, exactly the lines of that block and no line
\* of any later definition; it answers 'No definition found' when the schema
\* has no block for objectType.
C18_LookupReturnsTheBlock ==
    (dpc = "looked up" /\ WellFormedSchema)
      => LET mine == SelectSeq(BlocksOfSchema.blocks, LAMBDA b : b.name = objectType)
         IN  /\ Len(mine) = 0 => definition.kind = "No definition found"
             /\ Len(mine) = 1
                  => /\ definition.kind = "definition"
                     /\ definition.lines = SubSeq(LinesOfSchema, mine[1].from, mine[1].to)

(***************************************************************************)
(* The configuration of the two programs.  index.ts reads                  *)
(* SPICEDB_ENDPOINT, SPICEDB_API_KEY and SPICEDB_USE_TLS in the            *)
(* constructor of its client; server.ts reads SPICEDB_URL and              *)
(* SPICEDB_API_KEY at start and hands them to its client.  A text is a     *)
(* sequence of words, the letters 'http' being a word of their own.        *)
(***************************************************************************)
\* process.env.NAME || fallback
EnvOr(name, fallback) == IF TruthyOpt(env[name]) THEN env[name].text ELSE fallback

\* the endpoint of the client of index.ts: 'Ensure endpoint has protocol'
IndexEndpoint(configured, useTLS) ==
    IF ~StartsWith(configured, <<"http">>)
    THEN (IF useTLS THEN <<"http", "s">> ELSE <<"http">>) \o <<"://">> \o configured
    ELSE configured

Header(name, value) == [name |-> name, value |-> value]

\* the headers of makeRequest of index.ts
IndexHeaders(key) ==
    {Header("Content-Type", <<"application/json">>),
     Header("Accept", <<"application/json, application/x-ndjson">>)}
      \cup (IF key # <<>> THEN {Header("Authorization", <<"Bearer ">> \o key)} ELSE {})

\* the headers of makeRequest of server.ts
ServerHeaders(key) ==
    {Header("Authorization", <<"Bearer ">> \o key),
     Header("Content-Type", <<"application/json">>)}

\* the endpoint values a process is configured with
EndpointValues ==
    {<<"localhost:8443">>, <<"spicedb.example.com">>, <<"http", "bin.local:8443">>,
     <<"http", "://", "localhost:8443">>, <<"http", "s", "://", "spicedb.example.com">>}

KeyValues == {None, Some(<<>>), Some(<<"secret">>)}

ClientInit == TransportIdle /\ AggIdle /\ SrvIdle /\ CodecIdle /\ OtherIdle

\* index.ts is started with its environment
StartIndex ==
    /\ kpc = "idle"
    /\ \E e \in {None, Some(<<>>)} \cup {Some(v) : v \in EndpointValues} :
       \E k \in KeyValues :
       \E t \in {None, Some(<<"true">>), Some(<<"false">>)} :
          env' = [env EXCEPT !["SPICEDB_ENDPOINT"] = e,
                             !["SPICEDB_API_KEY"] = k,
                             !["SPICEDB_USE_TLS"] = t]
    /\ program' = "index.ts"
    /\ kpc' = "started"
    /\ UNCHANGED <<client, sent>>
    /\ UNCHANGED <<tvars, avars, svars, cvars, fvars, xvars, dvars, calls>>

\* server.ts is started with its environment
StartServer ==
    /\ kpc = "idle"
    /\ \E e \in {None, Some(<<>>)} \cup {Some(v) : v \in EndpointValues} :
       \E k \in KeyValues :
          env' = [env EXCEPT !["SPICEDB_URL"] = e, !["SPICEDB_API_KEY"] = k]
    /\ program' = "server.ts"
    /\ kpc' = "started"
    /\ UNCHANGED <<client, sent>>
    /\ UNCHANGED <<tvars, avars, svars, cvars, fvars, xvars, dvars, calls>>

\* SpiceDBClient.getInstance() of index.ts: the private constructor
ConstructIndexClient ==
    /\ kpc = "started"
    /\ program = "index.ts"
    /\ LET useTLS == env["SPICEDB_USE_TLS"] = Some(<<"true">>)
       IN  client' = [endpoint |-> IndexEndpoint(EnvOr("SPICEDB_ENDPOINT", <<"localhost:50051">>),
                                                 useTLS),
                      apiKey |-> EnvOr("SPICEDB_API_KEY", <<>>),
                      useTLS |-> useTLS]
    /\ kpc' = "constructed"
    /\ UNCHANGED <<env, program, sent>>
    /\ UNCHANGED <<tvars, avars, svars, cvars, fvars, xvars, dvars, calls>>

\* new SpiceDBMCPServer(spicedbUrl, spicedbApiKey, serverPort) of server.ts
ConstructServerClient ==
    /\ kpc = "started"
    /\ program = "server.ts"
    /\ client' = [endpoint |-> EnvOr("SPICEDB_URL", <<"http", "://", "localhost:50051">>),
                  apiKey |-> EnvOr("SPICEDB_API_KEY", <<"your-api-key">>),
                  useTLS |-> FALSE]
    /\ kpc' = "constructed"
    /\ UNCHANGED <<env, program, sent>>
    /\ UNCHANGED <<tvars, avars, svars, cvars, fvars, xvars, dvars, calls>>

\* makeRequest of index.ts up to its fetch
IndexFetch ==
    /\ kpc = "constructed"
    /\ program = "index.ts"
    /\ \E path \in {"/v1/schema/read", "/v1/permissions/check"} :
          sent' = [url |-> Append(client.endpoint, path),
                   headers |-> IndexHeaders(client.apiKey)]
    /\ kpc' = "sent"
    /\ UNCHANGED <<env, program, client>>
    /\ UNCHANGED <<tvars, avars, svars, cvars, fvars, xvars, dvars, calls>>

\* makeRequest of server.ts up to its axios call
ServerFetch ==
    /\ kpc = "constructed"
    /\ program = "server.ts"
    /\ \E path \in {"/v1/schema/read", "/v1/permissions/check"} :
          sent' = [url |-> Append(client.endpoint, path),
                   headers |-> ServerHeaders(client.apiKey)]
    /\ kpc' = "sent"
    /\ UNCHANGED <<env, program, client>>
    /\ UNCHANGED <<tvars, avars, svars, cvars, fvars, xvars, dvars, calls>>

ClientNext ==
    \/ StartIndex
    \/ StartServer
    \/ ConstructIndexClient
    \/ ConstructServerClient
    \/ IndexFetch
    \/ ServerFetch

SpecClient == ClientInit /\ [][ClientNext]_vars

\* an API key is configured: SPICEDB_API_KEY is set and not empty
KeyConfigured == env["SPICEDB_API_KEY"].present /\ env["SPICEDB_API_KEY"].text # <<>>

AuthorizationHeaders == {h \in sent.headers : h.name = "Authorization"}

\* C19: makeRequest sends an Authorization: Bearer header on a request if and
\* only if an API key is configured (non-empty); with no key configured the
\* request is sent without that header.  This holds for the client of
\* index.ts and for the client of server.ts.
C19_BearerOnlyWithKey ==
    kpc = "sent"
      => IF KeyConfigured
         THEN AuthorizationHeaders =
                {Header("Authorization", <<"Bearer ">> \o env["SPICEDB_API_KEY"].text)}
         ELSE AuthorizationHeaders = {}

\* a text has a URL scheme
HasScheme(text) == \E i \in 1..Len(text) : text[i] = "://"

\* C20: for every configured endpoint value that has no URL scheme (host
\* names that begin with the letters 'http' included), the client's endpoint
\* becomes 'https://' + value when the TLS flag is true and 'http://' + value
\* otherwise; an endpoint that already has a scheme is left unchanged.
C20_SchemeFromTLSFlag ==
    (kpc \in {"constructed", "sent"} /\ program = "index.ts"
       /\ TruthyOpt(env["SPICEDB_ENDPOINT"]))
      => LET value == env["SPICEDB_ENDPOINT"].text
         IN  IF HasScheme(value) THEN client.endpoint = value
             ELSE IF env["SPICEDB_USE_TLS"] = Some(<<"true">>)
             THEN client.endpoint = <<"http", "s", "://">> \o value
             ELSE client.endpoint = <<"http", "://">> \o value

(***************************************************************************)
(* Further aggregator claims: how the loop ends, which cursor a request    *)
(* carries, and what the loop does with a response that is no sequence.    *)
(***************************************************************************)
\* the answer is parsed to a sequence: the empty array, or two or more lines
IsSequencePage(a) ==
    \/ a = Answer(200, <<DocChar("emptyarr", "", 0)>>)
    \/ IsPageOf(a, PageKinds) /\ LineCount(a) >= 2

LastServed == served[Len(served)]

\* C21: after any page that is a sequence, the loop stops if no cursor has
\* been set so far or if that page added no result, even when earlier pages
\* added results and set a cursor.
C21_EmptyPageStopsLoop ==
    (/\ Len(served) >= 1
     /\ Processed
     /\ IsSequencePage(LastServed)
     /\ cursor = Null \/ IsEmptySequence(ep, LastServed))
    => Terminated

\* the cursors the lines of an answer carry
CursorsOf(a) ==
    {Str(a.body[i].id) : i \in {j \in 1..Len(a.body) :
        a.body[j].c = "doc" /\ a.body[j].kind \in {"wrapc", "wrapinv", "noresult", "legc"}}}

\* C22: the first request of an aggregation carries no optionalCursor, and
\* every later request carries the cursor delivered by the page immediately
\* before it: never a cursor of an older page, and never none.
C22_CursorOfPreviousPage ==
    \A k \in 1..Len(reqs) :
        IF k = 1
        THEN reqs[k].optionalCursor = Undefined
        ELSE reqs[k].optionalCursor \in CursorsOf(served[k - 1])

\* the answer is parsed to one object: a body of one line
IsSingleObject(a) ==
    /\ a.status = 200
    /\ Len(a.body) = 1
    /\ a.body[1].c = "doc"
    /\ a.body[1].kind \in PageKinds \cup LegacyKinds

\* C23: a response that is a single object is appended to the results only
\* if it satisfies the endpoint's item predicate (it has 'relationship',
\* 'resourceObjectId', or is a subject result); after appending it the loop
\* continues with the object's cursor if it carries one and ends otherwise.
C23_LegacyObjectByPredicate ==
    [][(apc = "answered" /\ IsSingleObject(LastServed))
         => LET obj == DocValue(LastServed.body[1])
            IN  /\ results' # results => HasKey(obj, ItemKey(ep))
                /\ HasKey(obj, ItemKey(ep))
                     => /\ results' = Append(results, obj)
                        /\ IF HasKey(obj, CursorKey)
                           THEN hasMore' /\ cursor' = obj.f[CursorKey] /\ apc' = "loop"
                           ELSE ~hasMore' /\ apc' = "finished"]_vars

\* the parsed response is absent: status 204, or a body without any text
IsAbsent(a) == a.status = 204 \/ (a.status = 200 /\ Trim(a.body) = <<>>)

\* the parsed response is neither a sequence nor a single object with the
\* endpoint's key: a JSON value that is no object, or an object without it
IsNeitherShape(e, a) ==
    \/ a = Answer(200, <<DocChar("prim", "", Len(served))>>)
    \/ IsSingleObject(a) /\ ~HasKey(DocValue(a.body[1]), ItemKey(e))

\* C24: when a page's parsed response is absent or matches neither the
\* sequence shape nor the legacy single-object shape, the aggregator issues
\* no further request and returns, without raising an error, exactly the
\* results accumulated from the earlier pages.
C24_UnknownShapeEndsQuietly ==
    [][(apc = "answered" /\ (IsAbsent(LastServed) \/ IsNeitherShape(ep, LastServed)))
         => /\ apc' = "finished"
            /\ aout' = Return(results)
            /\ reqs' = reqs]_vars

\* C25: within one aggregation at most one backend request is in flight at
\* any time: the request for page k+1 is issued only after the response for
\* page k has been received and its items and cursor processed.
C25_OneRequestInFlight ==
    /\ Len(reqs) - Len(served) \in {0, 1}
    /\ Len(reqs) - Len(served) = 1 <=> apc = "awaiting"
    /\ apc = "answered" => Len(reqs) = Len(served)

\* the second request is in flight, after the first page was processed
C25_Witness ==
    /\ apc = "awaiting"
    /\ Len(reqs) = 2
    /\ Len(served) = 1
    /\ Len(results) >= 1
    /\ reqs[2].optionalCursor # Undefined

(***************************************************************************)
(* Two tool invocations of index.ts whose aggregations run at the same     *)
(* time.  Both go through the one client getInstance returns; results,     *)
(* hasMore and cursor are locals of each call of the aggregator, and a     *)
(* call is suspended at its await while the other runs.                    *)
(***************************************************************************)
\* mutant: the cursor kept in one place for all calls
CursorOf_shared(cs, i) == cs[1].cursor

\* let cursor = null: the cursor invocation i reads is the one of its own call
CursorOf(cs, i) == cs[i].cursor

\* the item and cursor numbers of the lines of page p of invocation i: no
\* two lines of the two aggregations carry the same
ConcItemId(i, p, j) == ((i - 1) * MaxConcRequests + (p - 1)) * 2 + j

\* the answers the backend gives an invocation: a page of two lines with
\* cursors, a page of two lines without, a legacy object with a cursor, an
\* error status, no content
ConcAnswers(e, i, p) ==
    {Answer(200, <<DocChar(k, ItemKey(e), ConcItemId(i, p, 1)), NL,
                   DocChar(k, ItemKey(e), ConcItemId(i, p, 2))>>) : k \in {"wrapc", "wrap"}}
      \cup {Answer(200, <<DocChar("legc", ItemKey(e), ConcItemId(i, p, 1))>>),
            Answer(500, <<XX>>), Answer(204, <<>>)}

\* the module has run: const spiceDB = SpiceDBClient.getInstance(), with no
\* variable of the environment set
ConcInit ==
    /\ TransportIdle /\ AggIdle /\ SrvIdle /\ CodecIdle
    /\ FilterIdle /\ TraceIdle /\ SchemaIdle
    /\ kpc = "constructed"
    /\ env = [n \in EnvNames |-> None]
    /\ program = "index.ts"
    /\ client = [endpoint |-> IndexEndpoint(<<"localhost:50051">>, FALSE),
                 apiKey |-> <<>>, useTLS |-> FALSE]
    /\ sent = NoRequest
    /\ calls = [i \in Callers |-> NoCall]

\* a tool is invoked and its aggregator starts
ConcInvoke ==
    /\ \E i \in Callers : \E e \in Endpoints :
          /\ calls[i].pc = "idle"
          /\ calls' = [calls EXCEPT ![i] = [NoCall EXCEPT !.ep = e, !.pc = "loop"]]
    /\ UNCHANGED <<kpc, env, program, client, sent>>
    /\ UNCHANGED <<tvars, avars, svars, cvars, fvars, xvars, dvars>>

\* an invocation builds and sends the request for its next page
ConcSend ==
    /\ \E i \in Callers :
          /\ calls[i].pc = "loop"
          /\ calls[i].hasMore
          /\ Len(calls[i].reqs) < MaxConcRequests
          /\ calls' = [calls EXCEPT
                         ![i].reqs = Append(@, RequestParams(calls[i].ep, CursorOf(calls, i))),
                         ![i].pc = "awaiting"]
    /\ UNCHANGED <<kpc, env, program, client, sent>>
    /\ UNCHANGED <<tvars, avars, svars, cvars, fvars, xvars, dvars>>

\* the backend answers the request an invocation has in flight
ConcServe ==
    /\ \E i \in Callers :
          /\ calls[i].pc = "awaiting"
          /\ \E a \in ConcAnswers(calls[i].ep, i, Len(calls[i].served) + 1) :
                calls' = [calls EXCEPT ![i].served = Append(@, a), ![i].pc = "answered"]
    /\ UNCHANGED <<kpc, env, program, client, sent>>
    /\ UNCHANGED <<tvars, avars, svars, cvars, fvars, xvars, dvars>>

\* an invocation resumes after its await and runs the rest of the loop body
ConcProcess ==
    /\ \E i \in Callers :
          /\ calls[i].pc = "answered"
          /\ LET c == calls[i]
                 a == c.served[Len(c.served)]
                 r == makeRequest(a.status, a.body)
                 st == PageStep(c.ep, r.value, c.results, CursorOf(calls, i))
             IN  IF r.kind = "throw"
                 THEN calls' = [calls EXCEPT ![i].out = OnRequestError(c.results, r.error),
                                             ![i].pc = "finished"]
                 ELSE IF st.error # Undefined
                 THEN calls' = [calls EXCEPT ![i].out = Throw(st.error),
                                             ![i].pc = "finished"]
                 ELSE calls' = [calls EXCEPT
                                  ![i].results = st.results,
                                  ![i].cursor = st.cursor,
                                  ![i].hasMore = st.hasMore,
                                  ![i].pc = IF st.hasMore THEN "loop" ELSE "finished",
                                  ![i].out = IF st.hasMore THEN @ ELSE Return(st.results)]
    /\ UNCHANGED <<kpc, env, program, client, sent>>
    /\ UNCHANGED <<tvars, avars, svars, cvars, fvars, xvars, dvars>>

ConcNext == ConcInvoke \/ ConcSend \/ ConcServe \/ ConcProcess

SpecConc == ConcInit /\ [][ConcNext]_vars

\* the loop state of an aggregator that has sent no request yet
Fresh == [results |-> <<>>, cursor |-> Null, out |-> NoOutcome, requests |-> 0]

RECURSIVE RunAlone(_, _, _)
\* the aggregator of endpoint e run on its own, from the loop state st, over
\* the answers the backend gives it one after the other: what it has
\* collected, returned or thrown, and the requests it has issued, when the
\* answers are used up
RunAlone(e, st, answers) ==
    IF answers = <<>> \/ st.out # NoOutcome THEN st
    ELSE LET a == Head(answers)
             r == makeRequest(a.status, a.body)
             ps == PageStep(e, r.value, st.results, st.cursor)
             n == st.requests + 1
         IN  IF r.kind = "throw"
             THEN [st EXCEPT !.out = Throw(r.error), !.requests = n]
             ELSE IF ps.error # Undefined
             THEN [st EXCEPT !.out = Throw(ps.error), !.requests = n]
             ELSE RunAlone(e,
                           [results |-> ps.results, cursor |-> ps.cursor,
                            out |-> IF ps.hasMore THEN NoOutcome ELSE Return(ps.results),
                            requests |-> n],
                           Tail(answers))

\* the cursors among the answers given to an invocation
CursorsGivenTo(i) == UNION {CursorsOf(calls[i].served[p]) : p \in 1..Len(calls[i].served)}

\* C26: two tool invocations whose pagination loops interleave at their
\* network awaits do not influence each other: each returns what it would
\* return when run alone against the same backend answers, a cursor obtained
\* by one aggregation is never sent in a request of the other, and the
\* client's endpoint, key and TLS flag are never written after construction.
C26_InvocationsIndependent ==
    /\ [](\A i \in Callers :
            /\ calls[i].pc = "finished"
                 => calls[i].out =
                      RunAlone(calls[i].ep, Fresh, calls[i].served).out
            /\ \A k \in 1..Len(calls[i].reqs) : \A j \in Callers \ {i} :
                  calls[i].reqs[k].optionalCursor \notin CursorsGivenTo(j))
    /\ [][client' = client]_vars

\* both invocations, of different endpoints, have finished with results of
\* their own, each after a second request that carried a cursor
C26_Witness ==
    /\ \A i \in Callers :
          /\ calls[i].pc = "finished"
          /\ Len(calls[i].reqs) = 2
          /\ calls[i].out.kind = "return"
          /\ Len(calls[i].out.value) >= 2
          /\ calls[i].reqs[2].optionalCursor # Undefined
    /\ calls[1].ep # calls[2].ep

(***************************************************************************)
(* The three aggregators side by side.                                     *)
(***************************************************************************)
\* the item predicate of an endpoint on a single object: it has
\* 'relationship', 'resourceObjectId', or the subject's id
SatisfiesPredicate(e, obj) == HasKey(obj, ItemKey(e))

\* how an answer is classified for endpoint e: a failed request; a sequence
\* with, item by item, whether e's test on an item accepts it; a value that
\* is no object; or a single object that satisfies e's predicate (valid) or
\* does not, or no value at all (absent)
ClassOf(e, a) ==
    LET r == makeRequest(a.status, a.body)
    IN  IF r.kind = "throw" THEN <<"failed">>
        ELSE IF IsArray(r.value)
        THEN <<"items", [i \in 1..Len(r.value.e) |->
                           IF r.value.e[i].t \in {"null", "undef"} THEN "unreadable"
                           ELSE IF ItemValid(e, r.value.e[i]) THEN "valid"
                           ELSE "invalid"]>>
        ELSE IF r.value.t = "str" THEN <<"unreadable">>
        ELSE IF SatisfiesPredicate(e, r.value) THEN <<"single", "valid">>
        ELSE <<"single", "absent">>

\* endpoint e2 classifies every answer served so far as the running endpoint
\* does
SameClassification(e2) ==
    \A p \in 1..Len(served) : ClassOf(e2, served[p]) = ClassOf(ep, served[p])

\* C27: readRelationships, lookupResources and lookupSubjects run the same
\* algorithm: over the same sequence of backend answers, each answer
\* classified the same way by the endpoints' own predicates, another
\* endpoint's aggregator has appended the same results, holds the same
\* cursor, has made the same decision to continue or to end (with the same
\* outcome) and has issued the same number of requests as the running one,
\* after every page.
C27_SameAlgorithm ==
    \A e2 \in Endpoints :
        (Processed /\ Len(served) >= 1 /\ SameClassification(e2))
            => LET other == RunAlone(e2, Fresh, served)
               IN  /\ other.results = results
                   /\ other.cursor = cursor
                   /\ (other.out = NoOutcome) <=> (apc = "loop")
                   /\ Terminated => other.out = aout
                   /\ other.requests = Len(reqs)

(***************************************************************************)
(* generateTraceExplanation line by line.                                  *)
(***************************************************************************)
\* the place in the text of the i-th 'Checking if' line
CheckLineAt(text, i) ==
    CHOOSE j \in 1..Len(text) :
        /\ text[j].kind = "Checking if"
        /\ Cardinality({k \in 1..j : text[k].kind = "Checking if"}) = i

\* the lines after the i-th 'Checking if' line and before the next one
LinesAfterCheck(text, i) ==
    LET from == CheckLineAt(text, i) + 1
        to == IF i < Len(CheckLines(text)) THEN CheckLineAt(text, i + 1) - 1 ELSE Len(text)
    IN  SubSeq(text, from, to)

\* C28: generateTraceExplanation returns the one line 'No trace data
\* available' when the trace is absent; a node without subProblems.traces
\* (left out or empty) is rendered as its own line, followed by its '(took
\* ...)' line exactly when the node has a duration; the line 'This was
\* determined by:' follows exactly for the nodes with at least one child.
C28_LeafAndAbsentTrace ==
    xpc = "explained"
      => IF explained.trace = Null
         THEN explained.text = <<NoTraceLine>>
         ELSE LET nodes == PreOrder(explained.trace, explained.depth)
                  text == explained.text
              IN  /\ Len(CheckLines(text)) = Len(nodes)
                  /\ \A l \in 1..Len(text) : text[l] # NoTraceLine
                  /\ \A i \in 1..Len(nodes) :
                        LET node == nodes[i].node
                            own == LinesAfterCheck(text, i)
                        IN  own = (IF node.duration # ""
                                   THEN <<TookLine(Indent(nodes[i].depth), node.duration)>>
                                   ELSE <<>>)
                                  \o (IF ChildrenOf(node) # <<>>
                                      THEN <<DeterminedLine(Indent(nodes[i].depth))>>
                                      ELSE <<>>)

\* a node with a duration whose first child has a duration and no
\* subProblems and whose second child has an empty list of traces and no
\* duration
C28_Witness ==
    /\ xpc = "explained"
    /\ explained.trace # Null
    /\ explained.trace.duration # ""
    /\ Len(ChildrenOf(explained.trace)) = 2
    /\ ChildrenOf(explained.trace)[1].subProblems = Undefined
    /\ ChildrenOf(explained.trace)[1].duration # ""
    /\ ChildrenOf(explained.trace)[2].subProblems = [traces |-> <<>>]
    /\ ChildrenOf(explained.trace)[2].duration = ""
    /\ Len(explained.text) = 6

(***************************************************************************)
(* Definition lines inside an open block.                                  *)
(***************************************************************************)
RECURSIVE OuterScan(_, _, _)
\* the blocks of a schema when a block is opened only while none is open:
\* inside an open block every line, a definition line too, is content whose
\* braces count towards the balance of the open block
OuterScan(st, lines, i) ==
    IF i > Len(lines) THEN st
    ELSE LET line == lines[i]
             next ==
               IF st.openAt = 0
               THEN IF ~OpensBlock(line) THEN st
                    ELSE IF Net(line) = 0
                    THEN [st EXCEPT !.blocks = Append(@, [name |-> line[3], from |-> i, to |-> i])]
                    ELSE [st EXCEPT !.openAt = i, !.balance = Net(line)]
               ELSE IF st.balance + Net(line) = 0
                    THEN [st EXCEPT !.blocks = Append(@, [name |-> lines[st.openAt][3],
                                                          from |-> st.openAt, to |-> i]),
                                    !.openAt = 0, !.balance = 0]
                    ELSE [st EXCEPT !.balance = @ + Net(line)]
         IN  OuterScan(next, lines, i + 1)

\* the blocks that were opened while no block was open and later balanced
OuterBlocks == OuterScan([blocks |-> <<>>, openAt |-> 0, balance |-> 0], LinesOfSchema, 1).blocks

\* a definition line stands inside a block that is balanced later
NestedDefinitionLine ==
    \E k \in 1..Len(OuterBlocks) :
    \E i \in (OuterBlocks[k].from + 1)..OuterBlocks[k].to : OpensBlock(LinesOfSchema[i])

\* C29: extractObjectDefinitionsFromSchema opens a new block only while no
\* block is open: a definition line met while an earlier block is open
\* neither discards that block nor replaces its identifier, so every block
\* that was opened and later balanced is emitted, under its own identifier
\* and in schema order.
C29_OpenBlockIsKept ==
    (dpc = "listed" /\ NestedDefinitionLine
       /\ \A i \in 1..Len(LinesOfSchema) :
             OpensBlock(LinesOfSchema[i]) => Net(LinesOfSchema[i]) = 1)
      => objectDefResources = [k \in 1..Len(OuterBlocks) |-> OuterBlocks[k].name]

(***************************************************************************)
(* The size of an explanation.                                             *)
(***************************************************************************)
RECURSIVE NodeCount(_), NodeCountAll(_)
\* the number of nodes of a trace tree
NodeCount(node) == 1 + NodeCountAll(ChildrenOf(node))

NodeCountAll(nodes) ==
    IF nodes = <<>> THEN 0 ELSE NodeCount(Head(nodes)) + NodeCountAll(Tail(nodes))

RECURSIVE Height(_), HeightAll(_)
\* the depth of the deepest node of a trace tree, the root being at depth 0
Height(node) == HeightAll(ChildrenOf(node))

HeightAll(nodes) ==
    IF nodes = <<>> THEN 0
    ELSE LET h == 1 + Height(Head(nodes))
             r == HeightAll(Tail(nodes))
         IN  IF h > r THEN h ELSE r

\* the depth a line is rendered at: two blanks of indent for each level
DepthOfLine(line) == Len(line.indent) \div 2

\* C30: for every finite trace tree generateTraceExplanation terminates, and
\* its text holds exactly one 'Checking if' line per node of the tree: as
\* many as the tree has nodes, as many at each depth as the tree has nodes at
\* that depth, and none deeper than the tree.
C30_OneLinePerNode ==
    Rendered
      => LET root == checkResponse.debugTrace.check
             lines == CheckLines(explanation)
             nodes == PreOrder(root, 0)
         IN  /\ Len(lines) = NodeCount(root)
             /\ \A d \in 0..MaxNodes :
                   Cardinality({i \in 1..Len(lines) : DepthOfLine(lines[i]) = d})
                     = Cardinality({i \in 1..Len(nodes) : nodes[i].depth = d})
             /\ \A i \in 1..Len(lines) : DepthOfLine(lines[i]) <= Height(root)
             /\ Len(explanation) <= 3 * NodeCount(root)

\* a chain of checks as deep as the bound allows has been rendered
C30_Witness ==
    /\ Rendered
    /\ NodeCount(checkResponse.debugTrace.check) = MaxNodes
    /\ Height(checkResponse.debugTrace.check) = MaxNodes - 1
    /\ Len(CheckLines(explanation)) = MaxNodes

====
